---------------------------- MODULE Spec2Model ----------------------------
(***************************************************************************)
(* A model of the blockchain cache API:                                    *)
(*   - the RPC bridge of lib/rabbit.js (class Rabbit) together with the    *)
(*     broker it talks to and the way index.js starts it, and              *)
(*   - the cache-aside data access layer of lib/databaseBackend.js with    *)
(*     the RedisCache it writes through.                                   *)
(* The two components share no state; each has its own next-state          *)
(* relation (BridgeNext, DalNext) and is checked under its own             *)
(* specification.                                                          *)
(***************************************************************************)
EXTENDS Integers, Sequences, FiniteSets, TLC

(***************************************************************************)
(* Bounds of the model.                                                    *)
(***************************************************************************)
\* requestReply calls issued in one run
MaxCalls == 2
\* connect() invocations in one run (the first one and the reconnects)
MaxConnects == 2
\* messages ever published to the reply queue in one run
MaxMsgs == 1
\* blocks in the store
MaxBlocks == 1
\* largest amount of an input or output row
MaxAmount == 2
\* outputs recorded for one amount in the stores of the output sampler
MaxOutputs == 4
\* largest mixin count asked of the output sampler
MaxMixin == 2

Calls == 1 .. MaxCalls
Gens == 1 .. MaxConnects

VARIABLES
    \* ---- Rabbit (lib/rabbit.js) ----
    connPc,       \* stage of the latest connect() invocation
    gen,          \* number of connect() invocations so far
    channel,      \* this.channel: id of the channel object, 0 = undefined
    replyQueue,   \* this.replyQueue: the queue name chosen in the constructor
    listening,    \* index.js: app.listen ran (the first connect() resolved)
    calls,        \* per requestReply call: promise, timer, consumer
    signalled,    \* connections for which 'connect' was emitted
    \* ---- broker ----
    liveConn,     \* id of the connection that is open, 0 = none
    rq,           \* the exclusive reply queue: [owner, name, ready]
    held,         \* publishes sent on the channel behind its queue.declare
    workQ,        \* requests waiting in the work queue
    msgs,         \* every message ever published to the reply queue
    declared,     \* connections on which the reply queue was declared
    publishedOn,  \* <<call, connection>>: the request reached the broker
    \* ---- DatabaseBackend (lib/databaseBackend.js) ----
    store,        \* the rows of the relational store
    cache,        \* the redis cache: hashed key -> stored text and lifetime
    dal           \* the latest DAL call and what it did

bridgeVars == << connPc, gen, channel, replyQueue, listening, calls, signalled,
                 liveConn, rq, held, workQ, msgs, declared,
                 publishedOn >>
dalVars == << store, cache, dal >>
vars == << connPc, gen, channel, replyQueue, listening, calls, signalled,
           liveConn, rq, held, workQ, msgs, declared,
           publishedOn, store, cache, dal >>

(***************************************************************************)
(* RPC bridge: values                                                      *)
(***************************************************************************)
\* The state of a call that requestReply has not been invoked for yet.
NoCall == [state |-> "unissued", result |-> 0, error |-> "none",
           timer |-> "none", chan |-> 0, by |-> 0, offline |-> FALSE]

\* The reply queue when it does not exist at the broker.
NoQueue == [owner |-> 0, name |-> 0, ready |-> {}]

\* sendToQueue: a payload that is not a Buffer is sent as its JSON text.
Stringify(payload) == << "json", payload >>

\* JSON.parse(message.content.toString())
Parse(content) == content[2]

\* A resolve that overwrites the outcome of a settled promise.
Resolve_Again(call, response, m) ==
    [call EXCEPT !.state = "resolved", !.result = response, !.by = m]

\* resolve(response) of the promise of requestReply: a promise settles once.
Resolve(call, response, m) ==
    IF call.state = "pending"
    THEN [call EXCEPT !.state = "resolved", !.result = response, !.by = m]
    ELSE call

\* reject(new Error(...)) of the promise of requestReply.
Reject(call, err) ==
    IF call.state = "pending"
    THEN [call EXCEPT !.state = "rejected", !.error = err]
    ELSE call

\* clearTimeout(cancelTimer): an armed timer never fires; a timer that has
\* fired stays fired.
ClearTimer(call) ==
    IF call.timer = "armed" THEN [call EXCEPT !.timer = "cleared"] ELSE call

\* The consumer callbacks registered on the reply queue that the broker can
\* deliver to: requestReply registers one per call, on the channel current at
\* the time of the call, and nothing cancels it.
Consumers ==
    { c \in Calls : calls[c].chan # 0 /\ calls[c].chan = liveConn
                    /\ rq.owner = liveConn }


\* Mutant of Matches: the callback takes every message as its own.
Matches_Any(m, c) == TRUE

\* message.properties.correlationId === requestId (requestId is the call's id)
Matches(m, c) == msgs[m].corr = c

\* Mutant of AfterNack: the message is rejected without requeue.
AfterNack_Drop(ready, m) == ready \ {m}

\* channel.nack(message): requeue defaults to true, the message goes back to
\* the ready messages of the queue.
AfterNack(ready, m) == ready

\* Mutant of AfterDisconnectHandler: the handler fails the pending calls.
AfterDisconnect_FailPending ==
    [c \in Calls |-> Reject(calls[c], "Disconnected")]

\* The effect of the 'disconnect' handler of the constructor on the calls: it
\* logs and calls connect(), it touches no promise and no timer.
AfterDisconnectHandler == calls

(***************************************************************************)
(* RPC bridge: actions                                                     *)
(***************************************************************************)
\* index.js: rabbit.connect()
StartConnect ==
    /\ connPc = "idle"
    /\ connPc' = "connecting"
    /\ gen' = 1
    /\ UNCHANGED << channel, replyQueue, listening, calls, signalled, liveConn,
                    rq, held, workQ, msgs, declared, publishedOn >>
    /\ UNCHANGED dalVars

\* connect(): RabbitMQ.connect resolves with a connection.
ConnectionOpened ==
    /\ connPc = "connecting"
    /\ liveConn' = gen
    /\ connPc' = "channel"
    /\ UNCHANGED << gen, channel, replyQueue, listening, calls, signalled,
                    rq, held, workQ, msgs, declared, publishedOn >>
    /\ UNCHANGED dalVars

\* connect(): RabbitMQ.connect rejects. The first connect() is the one of
\* index.js, whose catch ends the process; a reconnect is the one of the
\* 'disconnect' handler, whose catch logs and does nothing else.
ConnectFailed ==
    /\ connPc = "connecting"
    /\ connPc' = IF gen = 1 THEN "exited" ELSE "failed"
    /\ UNCHANGED << gen, channel, replyQueue, listening, calls, signalled, liveConn,
                    rq, held, workQ, msgs, declared, publishedOn >>
    /\ UNCHANGED dalVars

\* Mutant of ChannelCreated: connect() emits 'connect' once the channel
\* exists, without declaring the reply queue.
ChannelCreated_NoDeclare ==
    /\ connPc = "channel"
    /\ liveConn = gen
    /\ channel' = gen
    /\ connPc' = "connected"
    /\ signalled' = signalled \cup {gen}
    /\ listening' = TRUE
    /\ UNCHANGED << gen, replyQueue, calls, liveConn,
                    rq, held, workQ, msgs, declared, publishedOn >>
    /\ UNCHANGED dalVars

\* connect(): createChannel resolves; this.channel = channel; createQueue sends
\* queue.declare for this.replyQueue on the new channel.
ChannelCreated ==
    /\ connPc = "channel"
    /\ liveConn = gen
    /\ channel' = gen
    /\ connPc' = "declaring"
    /\ UNCHANGED << gen, replyQueue, listening, calls, signalled, liveConn,
                    rq, held, workQ, msgs, declared, publishedOn >>
    /\ UNCHANGED dalVars

\* The broker declares the exclusive reply queue and then handles the frames
\* that followed queue.declare on the channel; assertQueue resolves and
\* connect() emits 'connect'. The first connect() resolving lets index.js
\* call app.listen.
QueueDeclared ==
    /\ connPc = "declaring"
    /\ liveConn = gen
    /\ rq' = [owner |-> gen, name |-> replyQueue, ready |-> {}]
    /\ declared' = declared \cup {gen}
    /\ workQ' = workQ \cup { [corr |-> c, replyTo |-> replyQueue] : c \in held }
    /\ publishedOn' = publishedOn \cup { << c, gen >> : c \in held }
    /\ held' = {}
    /\ signalled' = signalled \cup {gen}
    /\ listening' = TRUE
    /\ connPc' = "connected"
    /\ UNCHANGED << gen, channel, replyQueue, calls, liveConn, msgs >>
    /\ UNCHANGED dalVars

\* The link is lost: the broker drops the connection and with it the exclusive
\* queue and the frames not yet handled; 'disconnect' is emitted and the
\* handler of the constructor calls connect() (autoReconnect || true is always
\* true). A first connect() that has not resolved yet rejects, and index.js
\* ends the process.
Disconnect ==
    /\ liveConn # 0
    /\ gen < MaxConnects
    /\ liveConn' = 0
    /\ rq' = NoQueue
    /\ held' = {}
    /\ calls' = AfterDisconnectHandler
    /\ IF gen = 1 /\ connPc \in {"channel", "declaring"}
       THEN connPc' = "exited" /\ gen' = gen
       ELSE connPc' = "connecting" /\ gen' = gen + 1
    /\ UNCHANGED << channel, replyQueue, listening, signalled, workQ, msgs,
                    declared, publishedOn >>
    /\ UNCHANGED dalVars

\* Mutant of RequestReply: the call arms no timer.
RequestReply_NoTimer(c) ==
    /\ listening
    /\ calls[c].state = "unissued"
    /\ \A d \in Calls : d < c => calls[d].state # "unissued"
    /\ calls' = [calls EXCEPT ![c] = [state |-> "pending", result |-> 0,
                                      error |-> "none", timer |-> "none",
                                      chan |-> channel, by |-> 0,
                                      offline |-> FALSE]]
    /\ IF channel = liveConn /\ rq.owner = channel
       THEN /\ workQ' = workQ \cup { [corr |-> c, replyTo |-> replyQueue] }
            /\ publishedOn' = publishedOn \cup { << c, channel >> }
            /\ held' = held
       ELSE IF channel = liveConn
       THEN /\ held' = held \cup {c}
            /\ UNCHANGED << workQ, publishedOn >>
       ELSE UNCHANGED << workQ, publishedOn, held >>
    /\ UNCHANGED << connPc, gen, channel, replyQueue, listening, signalled,
                    liveConn, rq, msgs, declared >>
    /\ UNCHANGED dalVars

\* requestReply(queue, payload, timeout), called by the HTTP handlers of
\* index.js, which run once app.listen ran. requestId is a fresh UUID: the
\* calls are numbered in the order they are made.
RequestReply(c) ==
    /\ listening
    /\ calls[c].state = "unissued"
    /\ \A d \in Calls : d < c => calls[d].state # "unissued"
    /\ calls' = [calls EXCEPT ![c] = [state |-> "pending", result |-> 0,
                                      error |-> "none", timer |-> "armed",
                                      chan |-> channel, by |-> 0,
                                      offline |-> FALSE]]
    /\ IF channel = liveConn /\ rq.owner = channel
       THEN /\ workQ' = workQ \cup { [corr |-> c, replyTo |-> replyQueue] }
            /\ publishedOn' = publishedOn \cup { << c, channel >> }
            /\ held' = held
       ELSE IF channel = liveConn
       THEN /\ held' = held \cup {c}
            /\ UNCHANGED << workQ, publishedOn >>
       ELSE UNCHANGED << workQ, publishedOn, held >>
    /\ UNCHANGED << connPc, gen, channel, replyQueue, listening, signalled,
                    liveConn, rq, msgs, declared >>
    /\ UNCHANGED dalVars

\* The payload of the n-th message published to the reply queue: distinct
\* messages carry distinct payloads.
PayloadOf(n) == n * 10

\* A message is published to the queue named `name` with the given
\* correlationId: the broker drops it when no such queue exists.
PublishReply(name, corr) ==
    IF rq.owner # 0 /\ rq.name = name
    THEN /\ Len(msgs) < MaxMsgs
         /\ msgs' = Append(msgs, [corr |-> corr,
                                  content |-> Stringify(PayloadOf(Len(msgs) + 1)),
                                  acks |-> 0, nacked |-> FALSE])
         /\ rq' = [rq EXCEPT !.ready = @ \cup {Len(msgs) + 1}]
    ELSE UNCHANGED << msgs, rq >>

\* The relay agent takes a request from the work queue and answers it with
\* reply(message, payload): correlationId and replyTo are those of the request.
WorkerReply(req) ==
    /\ req \in workQ
    /\ workQ' = workQ \ {req}
    /\ PublishReply(req.replyTo, req.corr)
    /\ UNCHANGED << connPc, gen, channel, replyQueue, listening, calls, signalled,
                    liveConn, held, declared, publishedOn >>
    /\ UNCHANGED dalVars

\* expiration: timeout. The request expires in the work queue.
ExpireRequest(req) ==
    /\ req \in workQ
    /\ workQ' = workQ \ {req}
    /\ UNCHANGED << connPc, gen, channel, replyQueue, listening, calls, signalled,
                    liveConn, rq, held, msgs, declared, publishedOn >>
    /\ UNCHANGED dalVars

\* The broker delivers ready message m to the consumer callback of call c,
\* which acknowledges it, clears the timer and resolves when the
\* correlationId is its own, and negative-acknowledges it otherwise.
Deliver(m, c) ==
    /\ m \in rq.ready
    /\ c \in Consumers
    /\ IF Matches(m, c)
       THEN /\ rq' = [rq EXCEPT !.ready = @ \ {m}]
            /\ msgs' = [msgs EXCEPT ![m].acks = @ + 1]
            /\ calls' = [calls EXCEPT ![c] =
                            Resolve(ClearTimer(@), Parse(msgs[m].content), m)]
       ELSE /\ rq' = [rq EXCEPT !.ready = AfterNack(@, m)]
            /\ msgs' = [msgs EXCEPT ![m].nacked = TRUE]
            /\ calls' = calls
    /\ UNCHANGED << connPc, gen, channel, replyQueue, listening, signalled,
                    liveConn, held, workQ, declared, publishedOn >>
    /\ UNCHANGED dalVars

\* The timer of requestReply fires: reject with 'Could not complete request
\* within the specified timeout period'. (offline records that the channel of
\* the call was gone by then.)
Timeout(c) ==
    /\ calls[c].timer = "armed"
    /\ calls' = [calls EXCEPT ![c] =
                    Reject([@ EXCEPT !.timer = "fired",
                                     !.offline = (@ \/ calls[c].chan # liveConn)],
                           "Timeout")]
    /\ UNCHANGED << connPc, gen, channel, replyQueue, listening, signalled,
                    liveConn, rq, held, workQ, msgs, declared, publishedOn >>
    /\ UNCHANGED dalVars

Requests == { [corr |-> c, replyTo |-> replyQueue] : c \in Calls }

BridgeNext ==
    \/ StartConnect
    \/ ConnectionOpened
    \/ ConnectFailed
    \/ ChannelCreated
    \/ QueueDeclared
    \/ Disconnect
    \/ \E c \in Calls : RequestReply(c)
    \/ \E req \in Requests : WorkerReply(req)
    \/ \E req \in Requests : ExpireRequest(req)
    \/ \E m \in 1 .. MaxMsgs, c \in Calls : Deliver(m, c)
    \/ \E c \in Calls : Timeout(c)

BridgeInit ==
    /\ connPc = "idle"
    /\ gen = 0
    /\ channel = 0
    /\ replyQueue = 1
    /\ listening = FALSE
    /\ calls = [c \in Calls |-> NoCall]
    /\ signalled = {}
    /\ liveConn = 0
    /\ rq = NoQueue
    /\ held = {}
    /\ workQ = {}
    /\ msgs = << >>
    /\ declared = {}
    /\ publishedOn = {}

(***************************************************************************)
(* Data access layer: the relational store                                 *)
(***************************************************************************)
\* The hash of the block at height h.
BlockHash(h) == "b" \o ToString(h)

\* A store with n blocks at heights 1 .. n whose block 1 holds the
\* transactions named in txs: "t1" is a coinbase transaction
\* (totalInputsAmount 0) that records one output of amount 1, "t2" an ordinary
\* transaction that records inputs of 2, outputs of 1 and the given fee. The
\* input and output rows are what was written for them: cbOut, ins and outs
\* are the amounts of the single output row of t1, input row of t2 and output
\* row of t2, 0 standing for a row that is missing. The columns that the
\* modelled operations only pass through (publicKey, unlockTime, paymentId,
\* size, ...) are left out.
StoreOf(n, txs, cbOut, ins, outs, fee) ==
    [ blocks |->
        [h \in 1 .. n |-> [hash |-> BlockHash(h), height |-> h,
                           timestamp |-> h * 100]],
      transactions |->
        (IF "t1" \in txs
         THEN << [txnHash |-> "t1", blockHash |-> BlockHash(1),
                  totalInputsAmount |-> 0, totalOutputsAmount |-> 1,
                  fee |-> 0] >>
         ELSE << >>)
        \o (IF "t2" \in txs
            THEN << [txnHash |-> "t2", blockHash |-> BlockHash(1),
                     totalInputsAmount |-> 2, totalOutputsAmount |-> 1,
                     fee |-> fee] >>
            ELSE << >>),
      inputs |->
        IF "t2" \in txs /\ ins > 0
        THEN << [txnHash |-> "t2", keyImage |-> "k2", amount |-> ins,
                 type |-> 2] >>
        ELSE << >>,
      outputs |->
        (IF "t1" \in txs /\ cbOut > 0
         THEN << [txnHash |-> "t1", outputIndex |-> 0, globalIndex |-> 1,
                  key |-> "o1", amount |-> cbOut, type |-> 2] >>
         ELSE << >>)
        \o (IF "t2" \in txs /\ outs > 0
            THEN << [txnHash |-> "t2", outputIndex |-> 0, globalIndex |-> 2,
                     key |-> "o2", amount |-> outs, type |-> 2] >>
            ELSE << >>),
      pool |-> << >> ]

\* The store before the collection agent wrote anything.
EmptyStore == StoreOf(0, {}, 0, 0, 0, 0)

\* The stores considered: complete blocks as well as blocks of which only
\* part of the rows was written.
Stores ==
    {EmptyStore} \cup
    { StoreOf(n, txs, cbOut, ins, outs, fee) :
        n \in 1 .. MaxBlocks, txs \in SUBSET {"t1", "t2"},
        cbOut \in 0 .. MaxAmount, ins \in 0 .. MaxAmount,
        outs \in 0 .. MaxAmount, fee \in 0 .. 1 }

\* SELECT * FROM blocks ORDER BY height DESC LIMIT 1
TopBlock ==
    SelectSeq(store.blocks,
              LAMBDA b : \A i \in 1 .. Len(store.blocks) :
                            store.blocks[i].height <= b.height)

\* SELECT * FROM blocks WHERE height = ? LIMIT 1
BlockAtHeight(height) ==
    SelectSeq(store.blocks, LAMBDA b : b.height = height)

\* SELECT transactions.* FROM transactions WHERE blockHash = ?
TransactionsOf(blockHash) ==
    SelectSeq(store.transactions, LAMBDA t : t.blockHash = blockHash)

\* SELECT COUNT(*) AS transactionCount FROM transactions WHERE blockHash = ?
TransactionCount(blockHash) == Len(TransactionsOf(blockHash))

\* SELECT * FROM transaction_inputs WHERE txnHash = ? ORDER BY amount, keyImage
\* (a transaction has at most one input row here, so the order is the table's)
InputsOf(hash) == SelectSeq(store.inputs, LAMBDA r : r.txnHash = hash)

\* SELECT * FROM transaction_outputs WHERE txnHash = ? ORDER BY outputIndex
OutputsOf(hash) == SelectSeq(store.outputs, LAMBDA r : r.txnHash = hash)

\* txnCount of the LEFT JOIN on the per-block transaction counts: NULL for a
\* block without transaction rows. NULL is written -1: it is not equal (!==)
\* to any length.
JoinedTxnCount(blockHash) ==
    IF TransactionCount(blockHash) = 0 THEN -1 ELSE TransactionCount(blockHash)

\* The block rows that getWalletSyncData and getWalletSyncDataByHeight hand
\* to buildWalletDataBlock.
WalletBlockRows ==
    [i \in 1 .. Len(store.blocks) |->
        [blockHash |-> store.blocks[i].hash, height |-> store.blocks[i].height,
         timestamp |-> store.blocks[i].timestamp,
         txnCount |-> JoinedTxnCount(store.blocks[i].hash)]]

\* The block rows that the legacy callers hand to buildLegacyWalletDataBlock.
LegacyBlockRows ==
    [i \in 1 .. Len(store.blocks) |->
        [hash |-> store.blocks[i].hash, height |-> store.blocks[i].height,
         timestamp |-> store.blocks[i].timestamp,
         txnCount |-> JoinedTxnCount(store.blocks[i].hash)]]

\* The store with the transactions named in hashes waiting in
\* transaction_pool: "t1", which may also have a row in transactions, and
\* "t3", which has none.
WithPool(s, hashes) ==
    [s EXCEPT !.pool =
        (IF "t1" \in hashes THEN << [txnHash |-> "t1"] >> ELSE << >>)
        \o (IF "t3" \in hashes THEN << [txnHash |-> "t3"] >> ELSE << >>)]

\* SELECT * FROM blocks WHERE hash = ? LIMIT 1
BlockByHash(blockHash) ==
    SelectSeq(store.blocks, LAMBDA b : b.hash = blockHash)

\* SELECT transactions.* FROM transactions WHERE txnHash = ?
TransactionByHash(hash) ==
    SelectSeq(store.transactions, LAMBDA t : t.txnHash = hash)

\* SELECT ..., (SELECT COUNT(*) FROM transactions WHERE blockHash = hash)
\* AS tx_count FROM blocks WHERE height BETWEEN min AND max
\* ORDER BY height DESC
BlocksBetween(min, max) ==
    LET rows == SelectSeq(store.blocks,
                          LAMBDA b : min <= b.height /\ b.height <= max)
    IN  [i \in 1 .. Len(rows) |->
            [hash |-> rows[Len(rows) + 1 - i].hash,
             height |-> rows[Len(rows) + 1 - i].height,
             timestamp |-> rows[Len(rows) + 1 - i].timestamp,
             tx_count |-> TransactionCount(rows[Len(rows) + 1 - i].hash)]]

\* SELECT globalIndex, key FROM transaction_outputs WHERE amount = ? AND
\* globalIndex IN (...) ORDER BY globalIndex (the output rows of the store are
\* in the order of their globalIndex)
AmountKeyRows(amount, globalIndexes) ==
    LET rows == SelectSeq(store.outputs,
                          LAMBDA r : /\ r.amount = amount
                                     /\ \E i \in 1 .. Len(globalIndexes) :
                                           globalIndexes[i] = r.globalIndex)
    IN  [i \in 1 .. Len(rows) |->
            [globalIndex |-> rows[i].globalIndex, key |-> rows[i].key]]

\* SELECT txnHash FROM <table> WHERE txnHash = ? OR txnHash = ? ...
HashesIn(table, hashes) ==
    LET rows == SelectSeq(table,
                          LAMBDA r : \E i \in 1 .. Len(hashes) :
                                        hashes[i] = r.txnHash)
    IN  [i \in 1 .. Len(rows) |-> rows[i].txnHash]

(***************************************************************************)
(* Data access layer: RedisCache                                           *)
(***************************************************************************)
\* JavaScript values as the cache and the callers see them. The values that
\* the modelled operations cache are objects, arrays, numbers and strings.
Null == [t |-> "null"]
Obj(fields) == [t |-> "obj", v |-> fields]
Arr(items) == [t |-> "arr", v |-> items]
Num(n) == [t |-> "num", v |-> n]

\* A string, by its characters: << "json", value >> when they are the JSON
\* text of value, as JSON.stringify(value) and the payload column hold it,
\* << "chars", s >> for any other text s, such as the hex digits of a hash.
\* No modelled operation caches the empty string.
Str(chars) == [t |-> "str", v |-> chars]

\* JSON.parse throws a SyntaxError inside the callback that the redis client
\* invokes with the reply: the promise of RedisCache.get is never settled.
Thrown == [t |-> "thrown"]

\* !value
Falsy(value) == value.t = "null" \/ (value.t = "num" /\ value.v = 0)

\* sha256(message): the hex digest of an HMAC keyed with the key name
sha256(message) == << "hmac-sha256", message >>

\* JSON.parse(reply) for the text of a reply
JSONparse(text) == IF text[1] = "json" THEN text[2] ELSE Thrown

\* RedisCache.get: the stored text parsed as JSON, null for a key that is
\* not there (JSON.parse(null) is null).
RedisGet(c, keyName) ==
    IF sha256(keyName) \in DOMAIN c
    THEN JSONparse(c[sha256(keyName)].text)
    ELSE Null

\* RedisCache.set: a value that does not exist is refused; a string is
\* stored as it is, any other value as its JSON text, under the hashed key
\* with a lifetime of ttl seconds.
RedisSet(c, keyName, value, ttl) ==
    IF Falsy(value)
    THEN c
    ELSE (sha256(keyName) :>
             [text |-> IF value.t = "str" THEN value.v ELSE << "json", value >>,
              ex |-> ttl]) @@ c

(***************************************************************************)
(* Data access layer: DatabaseBackend                                      *)
(***************************************************************************)
\* What one DAL call has done so far: the cache as it left it, the number of
\* statements it sent to the store and the number of entries it wrote to the
\* cache. backend tells whether the constructor created a cache (this.cache):
\* it does when opts.redis.enable is set. fails holds the commands the redis
\* client answers with an error during the call: "get", "set", both or none.
Ctx(c) == [cache |-> c, q |-> 0, w |-> 0, backend |-> TRUE, fails |-> {}]

\* The context of a call on a DatabaseBackend constructed without a cache.
NoCache ==
    [cache |-> << >>, q |-> 0, w |-> 0, backend |-> FALSE, fails |-> {}]

\* The promise of a DAL call: it settles once, later resolve and reject calls
\* have no effect.
Pending == [kind |-> "pending", value |-> Null, error |-> "none"]
Resolved(value) == [kind |-> "resolved", value |-> value, error |-> "none"]
Rejected(error) == [kind |-> "rejected", value |-> Null, error |-> error]
Settle(p, outcome) == IF p.kind = "pending" THEN outcome ELSE p

\* Object.keys(data).length
KeyCount(data) ==
    IF data.t = "arr" THEN Len(data.v)
    ELSE IF data.t = "obj" THEN Cardinality(DOMAIN data.v)
    ELSE 0

\* A lookup that takes every stored value for a hit.
Usable_KeepsEmpty(data) == data

\* The tests of checkCache on the value the cache returned: false (written
\* Null) when there is none or it is an empty array or has no keys.
Usable(data) ==
    IF Falsy(data) THEN Null
    ELSE IF data.t = "arr" /\ Len(data.v) = 0 THEN Null
    ELSE IF KeyCount(data) = 0 THEN Null
    ELSE data

\* A lookup that hands the error of the client to the reader as data.
checkCache_ErrorAsData(x, key) ==
    IF ~x.backend THEN Null
    ELSE IF "get" \in x.fails THEN Obj([code |-> "ECONNREFUSED"])
    ELSE IF RedisGet(x.cache, key).t = "thrown" THEN Thrown
    ELSE Usable(RedisGet(x.cache, key))

\* checkCache(key): false (written Null) without a cache, and when the
\* client answers get with an error, for which RedisCache.get resolves false.
\* Its promise stays pending (written Thrown) when that of RedisCache.get
\* does.
checkCache(x, key) ==
    IF ~x.backend \/ "get" \in x.fails
    THEN Null
    ELSE IF RedisGet(x.cache, key).t = "thrown" THEN Thrown
    ELSE Usable(RedisGet(x.cache, key))

\* The cache-aside chain of every reader:
\*   this.checkCache(cacheName)
\*     .then(cached => { if (cached) return resolve(cached) })
\*     .then(() => ... the rest of the chain ...)
\* On a hit the promise is resolved with the cached value; the return leaves
\* the callback, not the chain, so the rest runs all the same and what it
\* resolves or rejects later has no effect on the settled promise.
CacheAside(cached, rest) ==
    [x |-> rest.x, hit |-> ~Falsy(cached),
     p |-> Settle(IF Falsy(cached) THEN Pending ELSE Resolved(cached), rest.p)]

\* The same chain for the readers that cache a string: while the promise of
\* checkCache stays pending no callback of the chain runs, and the promise
\* of the reader stays pending with it.
CacheAsideText(x, cached, rest) ==
    IF cached.t = "thrown"
    THEN [x |-> x, hit |-> FALSE, p |-> Pending]
    ELSE CacheAside(cached, rest)

\* query(query, args): one statement is sent to the store.
query(x) == [x EXCEPT !.q = @ + 1]

\* setCache(key, value, ttl): nothing without a cache, else cache.set, whose
\* refusal is swallowed, as is the error with which the client answers set.
setCache(x, key, value, ttl) ==
    IF ~x.backend \/ "set" \in x.fails
    THEN x
    ELSE [x EXCEPT !.cache = RedisSet(@, key, value, ttl),
                   !.w = IF Falsy(value) THEN @ ELSE @ + 1]

\* n.toString(16).padStart(2, '0') for a byte n
HexByte(n) ==
    LET digit == << "0", "1", "2", "3", "4", "5", "6", "7", "8", "9",
                    "a", "b", "c", "d", "e", "f" >>
    IN  digit[(n \div 16) + 1] \o digit[(n % 16) + 1]

\* results[i].type = results[i].type.toString(16).padStart(2, '0')
TypeAsHex(rows) ==
    [i \in 1 .. Len(rows) |-> [rows[i] EXCEPT !.type = HexByte(@)]]

\* checkTrim(txns): delete txns[i].txnHash when trim is set
checkTrim(rows, trim) ==
    IF trim
    THEN [i \in 1 .. Len(rows) |->
            [f \in DOMAIN rows[i] \ {"txnHash"} |-> rows[i][f]]]
    ELSE rows

\* The header object built from a block row.
Header(b, depth) ==
    Obj([hash |-> b.hash, height |-> b.height, timestamp |-> b.timestamp,
         depth |-> depth, transactionCount |-> TransactionCount(b.hash)])

\* getLastBlockHeader(): the chain behind the cache check.
LastBlockHeaderChain(x) ==
    IF Len(TopBlock) = 0
    THEN [x |-> query(x),
          p |-> Rejected("No blocks found in backend storage")]
    ELSE [x |-> setCache(query(query(x)), "getLastBlockHeader",
                         Header(TopBlock[1], 0), 5),
          p |-> Resolved(Header(TopBlock[1], 0))]

\* getLastBlockHeader()
getLastBlockHeader(x) ==
    CacheAside(checkCache(x, "getLastBlockHeader"),
               LastBlockHeaderChain(x))

\* A chain that answers a height without a block with the top header and
\* caches it under the key of the height.
BlockHeaderByHeightChain_TopForMissing(top, height) ==
    IF top.p.kind = "rejected"
    THEN [x |-> top.x, p |-> Rejected(top.p.error)]
    ELSE [x |-> setCache(top.x, "getBlockHeaderByHeight" \o ToString(height),
                         top.p.value, 10),
          p |-> Resolved(top.p.value)]

\* getBlockHeaderByHeight(height): the chain behind getLastBlockHeader(),
\* whose outcome is top.
BlockHeaderByHeightChain(top, height) ==
    IF top.p.kind = "rejected"
    THEN [x |-> top.x, p |-> Rejected(top.p.error)]
    ELSE IF Len(BlockAtHeight(height)) = 0
    THEN [x |-> query(top.x), p |-> Rejected("Requested block not found")]
    ELSE [x |-> setCache(query(query(top.x)),
                         "getBlockHeaderByHeight" \o ToString(height),
                         Header(BlockAtHeight(height)[1],
                                top.p.value.v.height - height), 10),
          p |-> Resolved(Header(BlockAtHeight(height)[1],
                                top.p.value.v.height - height))]

\* getBlockHeaderByHeight(height)
getBlockHeaderByHeight(x, height) ==
    CacheAside(checkCache(x, "getBlockHeaderByHeight" \o ToString(height)),
               BlockHeaderByHeightChain(getLastBlockHeader(x), height))

\* getTransactionsByBlock(blockHash): the chain behind the cache check; no
\* rows are returned without caching.
TransactionsByBlockChain(x, blockHash) ==
    IF Len(TransactionsOf(blockHash)) = 0
    THEN [x |-> query(x), p |-> Resolved(Arr(<< >>))]
    ELSE [x |-> setCache(query(x), "getTransactionsByBlock" \o blockHash,
                         Arr(TransactionsOf(blockHash)), 120),
          p |-> Resolved(Arr(TransactionsOf(blockHash)))]

\* getTransactionsByBlock(blockHash)
getTransactionsByBlock(x, blockHash) ==
    CacheAside(checkCache(x, "getTransactionsByBlock" \o blockHash),
               TransactionsByBlockChain(x, blockHash))

\* getTransactionInputs(hash, trim): the chain behind the cache check; the
\* rows are cached before they are trimmed.
TransactionInputsChain(x, hash, trim) ==
    IF Len(InputsOf(hash)) = 0
    THEN [x |-> query(x), p |-> Resolved(Arr(<< >>))]
    ELSE [x |-> setCache(query(x), "getTransactionInputs" \o hash,
                         Arr(TypeAsHex(InputsOf(hash))), 60),
          p |-> Resolved(Arr(checkTrim(TypeAsHex(InputsOf(hash)), trim)))]

\* getTransactionInputs(hash, trim)
getTransactionInputs(x, hash, trim) ==
    CacheAside(checkCache(x, "getTransactionInputs" \o hash),
               TransactionInputsChain(x, hash, trim))

\* getTransactionOutputs(hash, trim): the chain behind the cache check.
TransactionOutputsChain(x, hash, trim) ==
    IF Len(OutputsOf(hash)) = 0
    THEN [x |-> query(x), p |-> Resolved(Arr(<< >>))]
    ELSE [x |-> setCache(query(x), "getTransactionOutputs" \o hash,
                         Arr(TypeAsHex(OutputsOf(hash))), 60),
          p |-> Resolved(Arr(checkTrim(TypeAsHex(OutputsOf(hash)), trim)))]

\* getTransactionOutputs(hash, trim)
getTransactionOutputs(x, hash, trim) ==
    CacheAside(checkCache(x, "getTransactionOutputs" \o hash),
               TransactionOutputsChain(x, hash, trim))

\* The sum of the amounts of input or output entries.
RECURSIVE SumAmounts(_)
SumAmounts(rows) ==
    IF Len(rows) = 0 THEN 0 ELSE Head(rows).amount + SumAmounts(Tail(rows))

\* The txnHash of each transaction row: the keys of the transaction map.
Hashes(txns) == [i \in 1 .. Len(txns) |-> txns[i].txnHash]

\* What an assembler has fetched so far: the inputs and the outputs, one
\* result per transaction of the map.
Fetched(x) == [x |-> x, ins |-> << >>, outs |-> << >>]
WithInputs(f, r) == [f EXCEPT !.x = r.x, !.ins = Append(@, r.p.value.v)]
WithOutputs(f, r) == [f EXCEPT !.x = r.x, !.outs = Append(@, r.p.value.v)]

\* Promise.all over getTransactionInputs(hash, false) for the keys of the
\* transaction map.
RECURSIVE getAllInputs(_, _)
getAllInputs(f, hashes) ==
    IF Len(hashes) = 0 THEN f
    ELSE getAllInputs(
             WithInputs(f, getTransactionInputs(f.x, Head(hashes), FALSE)),
             Tail(hashes))

\* Promise.all over getTransactionOutputs(hash, false)
RECURSIVE getAllOutputs(_, _)
getAllOutputs(f, hashes) ==
    IF Len(hashes) = 0 THEN f
    ELSE getAllOutputs(
             WithOutputs(f, getTransactionOutputs(f.x, Head(hashes), FALSE)),
             Tail(hashes))

\* delete object[field]
Delete(object, field) == [f \in DOMAIN object \ {field} |-> object[f]]

\* The checking loop deletes the meta of every transaction it passed: of the
\* first n ones.
DeleteMeta(transactions, n) ==
    [i \in 1 .. Len(transactions) |->
        IF i <= n THEN Delete(transactions[i], "meta") ELSE transactions[i]]

\* The number of transactions the checking loop passes before it returns:
\* fails[i] tells whether transaction i fails a check.
LeadingOk(fails) ==
    IF \A i \in 1 .. Len(fails) : ~fails[i]
    THEN Len(fails)
    ELSE (CHOOSE i \in 1 .. Len(fails) :
             fails[i] /\ \A k \in 1 .. i - 1 : ~fails[k]) - 1

\* The per-transaction checks of buildWalletDataBlock: a transaction with
\* meta.inputsTotal 0 is a coinbase transaction and is exempt from the input
\* and fee checks.
WalletTxnFails(txn) ==
    \/ Len(txn.inputs) = 0 /\ Len(txn.outputs) = 0
    \/ txn.meta.inputsTotal # 0 /\ SumAmounts(txn.inputs) # txn.meta.inputsTotal
    \/ SumAmounts(txn.outputs) # txn.meta.outputsTotal
    \/ /\ txn.meta.inputsTotal # 0
       /\ SumAmounts(txn.inputs) - SumAmounts(txn.outputs) # txn.meta.fee

\* The transactions array of buildWalletDataBlock before the checks.
WalletTransactions(txns, ins, outs) ==
    [i \in 1 .. Len(txns) |->
        [hash |-> txns[i].txnHash,
         inputs |-> [k \in 1 .. Len(ins[i]) |->
                       [keyImage |-> ins[i][k].keyImage,
                        amount |-> ins[i][k].amount,
                        type |-> ins[i][k].type]],
         outputs |-> [k \in 1 .. Len(outs[i]) |->
                       [index |-> outs[i][k].outputIndex,
                        globalIndex |-> outs[i][k].globalIndex,
                        key |-> outs[i][k].key,
                        amount |-> outs[i][k].amount,
                        type |-> outs[i][k].type]],
         meta |-> [inputsTotal |-> txns[i].totalInputsAmount,
                   outputsTotal |-> txns[i].totalOutputsAmount,
                   fee |-> txns[i].fee]]]

\* buildWalletDataBlock: the object as the checks leave it, passed being the
\* number of transactions that passed them.
WalletObject(block, transactions, passed) ==
    Obj([blockHash |-> block.blockHash, height |-> block.height,
         timestamp |-> block.timestamp,
         transactions |-> DeleteMeta(transactions, passed)])

\* buildWalletDataBlock: the consistency checks and what follows them. A
\* failed check rejects and returns from its callback; the next callback of
\* the chain, the one with setCache, runs all the same.
WalletChecks(x, block, transactions, passed) ==
    [x |-> setCache(x, block.blockHash,
                    WalletObject(block, transactions, passed), 86400),
     p |-> IF block.txnCount = Len(transactions) /\ passed = Len(transactions)
           THEN Resolved(WalletObject(block, transactions, passed))
           ELSE Rejected("Internal Data Consistency Error")]

\* buildWalletDataBlock: the steps between the fetches and the checks.
WalletAssemble(x, block, transactions) ==
    WalletChecks(x, block, transactions,
                 IF block.txnCount = Len(transactions)
                 THEN LeadingOk([i \in 1 .. Len(transactions) |->
                                   WalletTxnFails(transactions[i])])
                 ELSE 0)

\* buildWalletDataBlock: the fetches of the inputs and outputs of the
\* transactions that getTransactionsByBlock resolved with.
WalletFetch(block, txns, f) ==
    WalletAssemble(f.x, block, WalletTransactions(txns, f.ins, f.outs))

\* buildWalletDataBlock: the chain behind getTransactionsByBlock, whose
\* outcome is t.
WalletChain(block, t) ==
    WalletFetch(block, t.p.value.v,
                getAllOutputs(getAllInputs(Fetched(t.x), Hashes(t.p.value.v)),
                              Hashes(t.p.value.v)))

\* buildWalletDataBlock(block)
buildWalletDataBlock(x, block) ==
    CacheAside(checkCache(x, block.blockHash),
               WalletChain(block, getTransactionsByBlock(x, block.blockHash)))

\* The per-transaction checks of buildLegacyWalletDataBlock.
LegacyTxnFails(txn) ==
    \/ Len(txn.inputs) = 0 /\ Len(txn.outputs) = 0
    \/ SumAmounts(txn.inputs) # txn.meta.inputsTotal
    \/ SumAmounts(txn.outputs) # txn.meta.outputsTotal
    \/ SumAmounts(txn.inputs) - SumAmounts(txn.outputs) # txn.meta.fee

\* The transactions array of buildLegacyWalletDataBlock before the checks.
LegacyTransactions(txns, ins, outs) ==
    [i \in 1 .. Len(txns) |->
        [hash |-> txns[i].txnHash,
         inputs |-> [k \in 1 .. Len(ins[i]) |->
                       [amount |-> ins[i][k].amount,
                        k_image |-> ins[i][k].keyImage]],
         outputs |-> [k \in 1 .. Len(outs[i]) |->
                       [amount |-> outs[i][k].amount,
                        key |-> outs[i][k].key,
                        globalIndex |-> outs[i][k].globalIndex]],
         meta |-> [inputsTotal |-> txns[i].totalInputsAmount,
                   outputsTotal |-> txns[i].totalOutputsAmount,
                   fee |-> txns[i].fee]]]

\* obj.coinbaseTX.hash: the txnHash of the last row with totalInputsAmount 0,
\* undefined when there is none.
CoinbaseHash(txns) ==
    IF \A i \in 1 .. Len(txns) : txns[i].totalInputsAmount # 0
    THEN "undefined"
    ELSE txns[CHOOSE i \in 1 .. Len(txns) :
                 /\ txns[i].totalInputsAmount = 0
                 /\ \A k \in i + 1 .. Len(txns) :
                       txns[k].totalInputsAmount # 0].txnHash

\* The rows that go into the transaction map of buildLegacyWalletDataBlock.
NonCoinbase(txns) == SelectSeq(txns, LAMBDA r : r.totalInputsAmount # 0)

\* obj.coinbaseTX once the outputs of the coinbase transaction are in.
CoinbaseTX(hash, outputs) ==
    [hash |-> hash,
     outputs |-> [k \in 1 .. Len(outputs) |->
                    [amount |-> outputs[k].amount, key |-> outputs[k].key,
                     globalIndex |-> outputs[k].globalIndex]]]

\* buildLegacyWalletDataBlock: the object as the checks leave it.
LegacyObject(block, coinbaseTX, transactions, passed) ==
    [blockHash |-> block.hash, blockHeight |-> block.height,
     blockTimestamp |-> block.timestamp, coinbaseTX |-> coinbaseTX,
     transactions |-> DeleteMeta(transactions, passed)]

\* buildLegacyWalletDataBlock: the consistency checks and what follows them.
\* Without a coinbase transaction obj.coinbaseTX.outputs is undefined and the
\* first check, which reads its length, throws a TypeError: the catch of the
\* chain rejects with it and setCache is not reached. A failed check rejects
\* and returns from its callback, and setCache runs all the same.
LegacyChecks(x, block, skipCoinbaseTransactions, coinbaseTX, transactions, passed) ==
    IF coinbaseTX.hash = "undefined"
    THEN [x |-> x, p |-> Rejected("TypeError")]
    ELSE [x |-> setCache(x, "legacy" \o block.hash,
                         Obj(LegacyObject(block, coinbaseTX, transactions, passed)),
                         86400),
          p |-> IF /\ Len(coinbaseTX.outputs) # 0
                   /\ block.txnCount = Len(transactions) + 1
                   /\ passed = Len(transactions)
                THEN Resolved(Obj(
                        IF skipCoinbaseTransactions
                        THEN Delete(LegacyObject(block, coinbaseTX,
                                                 transactions, passed),
                                    "coinbaseTX")
                        ELSE LegacyObject(block, coinbaseTX, transactions,
                                          passed)))
                ELSE Rejected("Internal Data Consistency Error")]

\* buildLegacyWalletDataBlock: the steps between the fetches and the checks.
LegacyAssemble(x, block, skipCoinbaseTransactions, coinbaseTX, transactions) ==
    LegacyChecks(x, block, skipCoinbaseTransactions, coinbaseTX, transactions,
                 IF /\ Len(coinbaseTX.outputs) # 0
                    /\ block.txnCount = Len(transactions) + 1
                 THEN LeadingOk([i \in 1 .. Len(transactions) |->
                                   LegacyTxnFails(transactions[i])])
                 ELSE 0)

\* buildLegacyWalletDataBlock: the fetches of the inputs and outputs of the
\* transactions of the map, behind getTransactionOutputs of the coinbase
\* transaction, whose outcome is cb.
LegacyFetch(block, skipCoinbaseTransactions, hash, txns, cb, f) ==
    LegacyAssemble(f.x, block, skipCoinbaseTransactions,
                   CoinbaseTX(hash, cb.p.value.v),
                   LegacyTransactions(txns, f.ins, f.outs))

\* buildLegacyWalletDataBlock: getTransactionOutputs(obj.coinbaseTX.hash)
\* resolved with cb.
LegacyCoinbase(block, skipCoinbaseTransactions, hash, txns, cb) ==
    LegacyFetch(block, skipCoinbaseTransactions, hash, txns, cb,
                getAllOutputs(getAllInputs(Fetched(cb.x), Hashes(txns)),
                              Hashes(txns)))

\* buildLegacyWalletDataBlock: the chain behind getTransactionsByBlock, whose
\* outcome is t. The outputs of the coinbase transaction are asked for with
\* trim left out.
LegacyChain(block, skipCoinbaseTransactions, t) ==
    LegacyCoinbase(block, skipCoinbaseTransactions,
                   CoinbaseHash(t.p.value.v), NonCoinbase(t.p.value.v),
                   getTransactionOutputs(t.x, CoinbaseHash(t.p.value.v), TRUE))

\* buildLegacyWalletDataBlock(block, skipCoinbaseTransactions)
buildLegacyWalletDataBlock(x, block, skipCoinbaseTransactions) ==
    CacheAside(checkCache(x, "legacy" \o block.hash),
               LegacyChain(block, skipCoinbaseTransactions,
                           getTransactionsByBlock(x, block.hash)))

\* items.join(','), the inside of JSON.stringify of an array
RECURSIVE Join(_)
Join(items) ==
    IF Len(items) = 0 THEN ""
    ELSE IF Len(items) = 1 THEN items[1]
    ELSE items[1] \o "," \o Join(Tail(items))

\* const cacheName = ... of each reader below, from its arguments. A number
\* is appended to a string in its decimal form; JSON.stringify writes an array
\* of numbers as [1,2] and an array of strings as ["t1","t2"].
cacheName(op, args) ==
    CASE op = "getBlockHeaderByHash" -> "getBlockHeaderByHash" \o args[1]
      [] op = "getBlockCount" -> "getBlockCount"
      [] op = "getTransactionPool" -> "getBlockCount"
      [] op = "getTransaction" -> "getTransaction" \o args[1]
      [] op = "getBlocks" ->
            "getBlocks" \o ToString(args[1])
               \o ToString(IF args[2] = 0 THEN 30 ELSE args[2])
      [] op = "getTransactionsStatus" ->
            "getTransactionsStatus" \o "["
               \o Join([i \in 1 .. Len(args[1]) |->
                           "\"" \o args[1][i] \o "\""])
               \o "]"
      [] op = "findCurrentSyncHeight" ->
            "findCurrentSyncHeight" \o "["
               \o Join([i \in 1 .. Len(args[1]) |->
                           "\"" \o args[1][i] \o "\""])
               \o "]" \o ToString(args[2]) \o ToString(args[3])
      [] op = "getAmountKeys" ->
            "getAmountKeys" \o ToString(args[1]) \o "["
               \o Join([i \in 1 .. Len(args[2]) |-> ToString(args[2][i])])
               \o "]"

\* getBlockHeaderByHash(blockHash): the chain behind getLastBlockHeader(),
\* whose outcome is top.
BlockHeaderByHashChain(top, blockHash) ==
    IF top.p.kind = "rejected"
    THEN [x |-> top.x, p |-> Rejected(top.p.error)]
    ELSE IF Len(BlockByHash(blockHash)) = 0
    THEN [x |-> query(top.x), p |-> Rejected("Requested block not found")]
    ELSE [x |-> setCache(query(query(top.x)),
                         cacheName("getBlockHeaderByHash", << blockHash >>),
                         Header(BlockByHash(blockHash)[1],
                                top.p.value.v.height
                                   - BlockByHash(blockHash)[1].height), 10),
          p |-> Resolved(Header(BlockByHash(blockHash)[1],
                                top.p.value.v.height
                                   - BlockByHash(blockHash)[1].height))]

\* getBlockHeaderByHash(blockHash)
getBlockHeaderByHash(x, blockHash) ==
    CacheAside(checkCache(x, cacheName("getBlockHeaderByHash", << blockHash >>)),
               BlockHeaderByHashChain(getLastBlockHeader(x), blockHash))

\* getBlockCount(): COUNT(*) always yields one row; the count is what setCache
\* hands on.
getBlockCount(x) ==
    CacheAside(checkCache(x, cacheName("getBlockCount", << >>)),
               [x |-> setCache(query(x), cacheName("getBlockCount", << >>),
                               Num(Len(store.blocks)), 5),
                p |-> Resolved(Num(Len(store.blocks)))])

\* getBlockHash(height): the chain behind getBlockHeaderByHeight(height),
\* whose outcome is block; the hash is a string of hex digits.
BlockHashChain(block, height) ==
    IF block.p.kind = "rejected"
    THEN [x |-> block.x, p |-> Rejected(block.p.error)]
    ELSE [x |-> setCache(block.x, "getBlockHash" \o ToString(height),
                         Str(<< "chars", block.p.value.v.hash >>), 15),
          p |-> Resolved(Str(<< "chars", block.p.value.v.hash >>))]

\* getBlockHash(height)
getBlockHash(x, height) ==
    CacheAsideText(x, checkCache(x, "getBlockHash" \o ToString(height)),
                   BlockHashChain(getBlockHeaderByHeight(x, height), height))

\* getBlockHeight(hash): the chain behind getBlockHeaderByHash(hash), whose
\* outcome is block.
BlockHeightChain(block, hash) ==
    IF block.p.kind = "rejected"
    THEN [x |-> block.x, p |-> Rejected(block.p.error)]
    ELSE [x |-> setCache(block.x, "getBlockHeight" \o hash,
                         Num(block.p.value.v.height), 15),
          p |-> Resolved(Num(block.p.value.v.height))]

\* getBlockHeight(hash)
getBlockHeight(x, hash) ==
    CacheAside(checkCache(x, "getBlockHeight" \o hash),
               BlockHeightChain(getBlockHeaderByHash(x, hash), hash))

\* SELECT payload FROM information WHERE key = 'getinfo': the collector keeps
\* the answer of the daemon there as JSON text once it has seen a block.
Information ==
    IF Len(store.blocks) = 0
    THEN << >>
    ELSE << [payload |-> << "json", Obj([height |-> Len(store.blocks)]) >>] >>

\* getInfo(): the chain behind the cache check; the payload is cached as the
\* string it is and resolved parsed.
InfoChain(x) ==
    IF Len(Information) = 0
    THEN [x |-> query(x), p |-> Rejected("No record found")]
    ELSE [x |-> setCache(query(x), "getInfo", Str(Information[1].payload), 5),
          p |-> Resolved(JSONparse(Information[1].payload))]

\* getInfo()
getInfo(x) == CacheAsideText(x, checkCache(x, "getInfo"), InfoChain(x))

\* getTransactionPool(): SELECT * FROM transaction_pool
getTransactionPool(x) ==
    CacheAside(checkCache(x, cacheName("getTransactionPool", << >>)),
               [x |-> setCache(query(x), cacheName("getTransactionPool", << >>),
                               Arr(store.pool), 5),
                p |-> Resolved(Arr(store.pool))])

\* getBlocks(height, count), a count that is left out being written 0:
\* cnt = count || 30.
getBlocks(x, height, count) ==
    LET cnt == IF count = 0 THEN 30 ELSE count
        blocks == Arr(BlocksBetween(height - (cnt - 1), height))
    IN  CacheAside(checkCache(x, cacheName("getBlocks", << height, count >>)),
                   [x |-> setCache(query(x),
                                   cacheName("getBlocks", << height, count >>),
                                   blocks, 5),
                    p |-> Resolved(blocks)])

\* An object that takes the block for the top of the chain.
TransactionResult_DepthZero(transaction, block, inputs, outputs, header) ==
    Obj([tx |-> [amount_out |-> transaction.totalOutputsAmount,
                 fee |-> transaction.fee,
                 hash |-> transaction.txnHash,
                 inputs |-> inputs.v,
                 outputs |-> outputs.v],
         block |-> [hash |-> block.v.hash,
                    height |-> block.v.height,
                    timestamp |-> block.v.timestamp,
                    tx_count |-> block.v.transactionCount,
                    depth |-> 0]])

\* getTransaction(hash): the object assembled from the transaction row, the
\* header of its block, its inputs and outputs and the top header.
TransactionResult(transaction, block, inputs, outputs, header) ==
    Obj([tx |-> [amount_out |-> transaction.totalOutputsAmount,
                 fee |-> transaction.fee,
                 hash |-> transaction.txnHash,
                 inputs |-> inputs.v,
                 outputs |-> outputs.v],
         block |-> [hash |-> block.v.hash,
                    height |-> block.v.height,
                    timestamp |-> block.v.timestamp,
                    tx_count |-> block.v.transactionCount,
                    depth |-> header.v.height - block.v.height]])

\* getTransaction(hash): the part of the chain behind getBlockHeaderByHash,
\* whose outcome is block. A rejection of a nested call ends in the catch.
TransactionFetch(hash, transaction, block, inputs, outputs, top) ==
    IF block.p.kind = "rejected"
    THEN [x |-> block.x, p |-> Rejected(block.p.error)]
    ELSE IF top.p.kind = "rejected"
    THEN [x |-> top.x, p |-> Rejected(top.p.error)]
    ELSE [x |-> setCache(top.x, cacheName("getTransaction", << hash >>),
                         TransactionResult(transaction, block.p.value,
                                           inputs.p.value, outputs.p.value,
                                           top.p.value), 15),
          p |-> Resolved(TransactionResult(transaction, block.p.value,
                                           inputs.p.value, outputs.p.value,
                                           top.p.value))]

\* getTransaction(hash): the chain behind the cache check. When not exactly
\* one row has the hash the promise is rejected; the next callback then reads
\* a field of undefined and the chain ends in the catch.
TransactionChain(x, hash) ==
    IF Len(TransactionByHash(hash)) # 1
    THEN [x |-> query(x), p |-> Rejected("Transaction not found")]
    ELSE LET block ==
                 getBlockHeaderByHash(query(x), TransactionByHash(hash)[1].blockHash)
             inputs == getTransactionInputs(block.x, hash, TRUE)
             outputs == getTransactionOutputs(inputs.x, hash, TRUE)
             top == getLastBlockHeader(outputs.x)
         IN  TransactionFetch(hash, TransactionByHash(hash)[1], block, inputs,
                              outputs, top)

\* getTransaction(hash)
getTransaction(x, hash) ==
    CacheAside(checkCache(x, cacheName("getTransaction", << hash >>)),
               TransactionChain(x, hash))

\* getTransactionsStatus(hashes)
getTransactionsStatus(x, hashes) ==
    LET inPool == HashesIn(store.pool, hashes)
        inBlock == HashesIn(store.transactions, hashes)
        result ==
            Obj([status |-> "OK",
                 transactionsInPool |-> inPool,
                 transactionsInBlock |-> inBlock,
                 transactionsUnknown |->
                    SelectSeq(hashes,
                              LAMBDA txn :
                                 /\ \A i \in 1 .. Len(inPool) : inPool[i] # txn
                                 /\ \A i \in 1 .. Len(inBlock) : inBlock[i] # txn)])
    IN  CacheAside(checkCache(x, cacheName("getTransactionsStatus", << hashes >>)),
                   [x |-> setCache(query(query(x)),
                                   cacheName("getTransactionsStatus", << hashes >>),
                                   result, 5),
                    p |-> Resolved(result)])

\* A chain that returns and caches whatever rows it found.
AmountKeysChain_NoCheck(x, amount, globalIndexes) ==
    [x |-> setCache(query(x),
                    cacheName("getAmountKeys", << amount, globalIndexes >>),
                    Arr(AmountKeyRows(amount, globalIndexes)), 60),
     p |-> Resolved(Arr(AmountKeyRows(amount, globalIndexes)))]

\* getAmountKeys(amount, globalIndexes): the chain behind the cache check. An
\* empty list makes the statement end in IN (), which the store refuses.
\* When the number of rows differs the promise is rejected and the callback
\* returns before setCache; the next callback resolves a settled promise.
AmountKeysChain(x, amount, globalIndexes) ==
    IF Len(globalIndexes) = 0
    THEN [x |-> query(x), p |-> Rejected("ER_PARSE_ERROR")]
    ELSE IF Len(AmountKeyRows(amount, globalIndexes)) # Len(globalIndexes)
    THEN [x |-> query(x),
          p |-> Rejected("Data consistency error, could not provide all keys for supplied globalIndexes")]
    ELSE [x |-> setCache(query(x),
                         cacheName("getAmountKeys", << amount, globalIndexes >>),
                         Arr(AmountKeyRows(amount, globalIndexes)), 60),
          p |-> Resolved(Arr(AmountKeyRows(amount, globalIndexes)))]

\* getAmountKeys(amount, globalIndexes)
getAmountKeys(x, amount, globalIndexes) ==
    CacheAside(checkCache(x, cacheName("getAmountKeys",
                                       << amount, globalIndexes >>)),
               AmountKeysChain(x, amount, globalIndexes))

\* A resume height that takes the height of the last known block itself.
SyncStart_Same(knownBlockHashes, startHeight, startTimestamp) ==
    LET known == SelectSeq(store.blocks,
                           LAMBDA b : \E i \in 1 .. Len(knownBlockHashes) :
                                         knownBlockHashes[i] = b.hash)
        dated == SelectSeq(store.blocks,
                           LAMBDA b : b.timestamp <= startTimestamp)
        a == IF Len(known) > 0 THEN known[Len(known)].height ELSE 0
        b == IF startTimestamp > 0 /\ Len(dated) > 0
                   /\ dated[Len(dated)].height > a
             THEN dated[Len(dated)].height
             ELSE a
    IN  IF startHeight > b THEN startHeight ELSE b

\* findCurrentSyncHeight: syncStart at the end of the chain. The rows of
\* blocks are in the order of their height, so the row that ORDER BY height
\* DESC LIMIT 1 yields is the last that qualifies. A left out startHeight or
\* startTimestamp is written 0.
SyncStart(knownBlockHashes, startHeight, startTimestamp) ==
    LET known == SelectSeq(store.blocks,
                           LAMBDA b : \E i \in 1 .. Len(knownBlockHashes) :
                                         knownBlockHashes[i] = b.hash)
        dated == SelectSeq(store.blocks,
                           LAMBDA b : b.timestamp <= startTimestamp)
        a == IF Len(known) > 0 THEN known[Len(known)].height + 1 ELSE 0
        b == IF startTimestamp > 0 /\ Len(dated) > 0
                   /\ dated[Len(dated)].height > a
             THEN dated[Len(dated)].height
             ELSE a
    IN  IF startHeight > b THEN startHeight ELSE b

\* findCurrentSyncHeight(knownBlockHashes, startHeight, startTimestamp): one
\* statement when hashes are given, one when a timestamp is given.
findCurrentSyncHeight(x, knownBlockHashes, startHeight, startTimestamp) ==
    LET name == cacheName("findCurrentSyncHeight",
                          << knownBlockHashes, startHeight, startTimestamp >>)
        syncStart == Num(SyncStart(knownBlockHashes, startHeight,
                                   startTimestamp))
        sent == [x EXCEPT !.q = @ + (IF Len(knownBlockHashes) > 0 THEN 1 ELSE 0)
                                  + (IF startTimestamp > 0 THEN 1 ELSE 0)]
    IN  CacheAside(checkCache(x, name),
                   [x |-> setCache(sent, name, syncStart, 60),
                    p |-> Resolved(syncStart)])

\* The rows of the block statement of legacyGetWalletSyncDataPreflight:
\*   WHERE height >= ? AND height <= ? [AND transactions.txnCount > 1]
\*   ORDER BY height ASC LIMIT ?
PreflightRows(syncHeight, topHeight, skipCoinbaseTransactions, limit) ==
    LET rows == SelectSeq(store.blocks,
                   LAMBDA b : /\ b.height >= syncHeight
                              /\ b.height <= topHeight
                              /\ skipCoinbaseTransactions
                                    => TransactionCount(b.hash) > 1)
    IN  SubSeq(rows, 1, IF Len(rows) < limit THEN Len(rows) ELSE limit)

\* The rest of the chain of legacyGetWalletSyncDataPreflight behind
\* getLastBlockHeader(), whose top block is block, and
\* findCurrentSyncHeight(), whose outcome is sync. The store refuses a
\* statement with a negative LIMIT, and the chain has no handler for it.
PreflightChain(block, sync, skipCoinbaseTransactions) ==
    LET syncHeight == sync.p.value.v
        resolvableBlocks == block.height - syncHeight + 1
        blockCount == IF resolvableBlocks > 100 THEN 100 ELSE resolvableBlocks
        rows == PreflightRows(syncHeight, block.height,
                              skipCoinbaseTransactions, blockCount)
    IN  IF blockCount < 0
        THEN [x |-> query(sync.x), hit |-> FALSE,
              p |-> Rejected("ER_PARSE_ERROR")]
        ELSE [x |-> query(sync.x), hit |-> FALSE,
              p |-> Resolved(Obj(
                       [topBlock |-> [height |-> block.height,
                                      hash |-> block.hash],
                        networkHeight |-> 0,
                        height |-> syncHeight,
                        blockCount |-> blockCount,
                        blockHashes |->
                           [i \in 1 .. Len(rows) |-> rows[i].hash]]))]

\* legacyGetWalletSyncDataPreflight(startHeight, startTimestamp,
\* blockHashCheckpoints, skipCoinbaseTransactions)
legacyGetWalletSyncDataPreflight(x, startHeight, startTimestamp, blockHashCheckpoints, skipCoinbaseTransactions) ==
    LET top == getLastBlockHeader(x)
    IN  IF top.p.kind = "rejected"
        THEN [x |-> top.x, hit |-> FALSE, p |-> Rejected(top.p.error)]
        ELSE PreflightChain(top.p.value.v,
                            findCurrentSyncHeight(top.x, blockHashCheckpoints,
                                                  startHeight, startTimestamp),
                            skipCoinbaseTransactions)

(***************************************************************************)
(* Data access layer: actions                                              *)
(***************************************************************************)
\* dal before any call.
NoDalCall == [op |-> "none", height |-> 0, skip |-> FALSE, hit |-> FALSE,
              kind |-> "pending", value |-> Null, error |-> "none",
              q |-> 0, w |-> 0]

\* The record of a DAL call that ran to the end of its promise chain: the
\* call, whether its own lookup was a hit, how its promise settled and what it
\* did to the store and the cache on the way.
Called(op, height, skip, r) ==
    [op |-> op, height |-> height, skip |-> skip, hit |-> r.hit,
     kind |-> r.p.kind, value |-> r.p.value, error |-> r.p.error,
     q |-> r.x.q, w |-> r.x.w]

\* getLastBlockHeader() is called and its chain runs to the end.
GetLastBlockHeader ==
    LET r == getLastBlockHeader(Ctx(cache))
    IN  /\ cache' = r.x.cache
        /\ dal' = Called("getLastBlockHeader", 0, FALSE, r)
        /\ UNCHANGED store
        /\ UNCHANGED bridgeVars

\* getBlockHeaderByHeight(height) is called and its chain runs to the end.
GetBlockHeaderByHeight(height) ==
    LET r == getBlockHeaderByHeight(Ctx(cache), height)
    IN  /\ cache' = r.x.cache
        /\ dal' = Called("getBlockHeaderByHeight", height, FALSE, r)
        /\ UNCHANGED store
        /\ UNCHANGED bridgeVars

\* getWalletSyncDataByHeight reaches the block at the given height and calls
\* buildWalletDataBlock for its row.
BuildWalletDataBlock(height) ==
    LET r == buildWalletDataBlock(Ctx(cache), WalletBlockRows[height])
    IN  /\ height \in 1 .. Len(WalletBlockRows)
        /\ cache' = r.x.cache
        /\ dal' = Called("buildWalletDataBlock", height, FALSE, r)
        /\ UNCHANGED store
        /\ UNCHANGED bridgeVars

\* legacyGetWalletSyncData or legacyGetWalletSyncDataLite reaches the block at
\* the given height and calls buildLegacyWalletDataBlock for its row.
BuildLegacyWalletDataBlock(height, skip) ==
    LET r == buildLegacyWalletDataBlock(Ctx(cache), LegacyBlockRows[height],
                                        skip)
    IN  /\ height \in 1 .. Len(LegacyBlockRows)
        /\ cache' = r.x.cache
        /\ dal' = Called("buildLegacyWalletDataBlock", height, skip, r)
        /\ UNCHANGED store
        /\ UNCHANGED bridgeVars

\* Time passes: the entries whose lifetime is at most ttl seconds expire.
Expire(ttl) ==
    /\ \E k \in DOMAIN cache : cache[k].ex <= ttl
    /\ cache' = [k \in { k \in DOMAIN cache : cache[k].ex > ttl } |-> cache[k]]
    /\ UNCHANGED << store, dal >>
    /\ UNCHANGED bridgeVars

Lifetimes == { cache[k].ex : k \in DOMAIN cache }

DalNext ==
    \/ GetLastBlockHeader
    \/ \E height \in 1 .. MaxBlocks + 1 : GetBlockHeaderByHeight(height)
    \/ \E height \in 1 .. MaxBlocks : BuildWalletDataBlock(height)
    \/ \E height \in 1 .. MaxBlocks, skip \in BOOLEAN :
          BuildLegacyWalletDataBlock(height, skip)
    \/ \E ttl \in Lifetimes : Expire(ttl)

DalInit ==
    /\ store \in Stores
    /\ cache = << >>
    /\ dal = NoDalCall

Init == BridgeInit /\ DalInit

Next == BridgeNext \/ DalNext

Spec == Init /\ [][Next]_vars

\* The data access layer alone.
SpecDAL == Init /\ [][DalNext]_vars

\* getBlockHeaderByHash(blockHash) is called and its chain runs to the end.
GetBlockHeaderByHash(blockHash) ==
    LET r == getBlockHeaderByHash(Ctx(cache), blockHash)
    IN  /\ cache' = r.x.cache
        /\ dal' = [args |-> << blockHash >>]
                      @@ Called("getBlockHeaderByHash", 0, FALSE, r)
        /\ UNCHANGED store
        /\ UNCHANGED bridgeVars

\* getBlockCount() is called and its chain runs to the end.
GetBlockCount ==
    LET r == getBlockCount(Ctx(cache))
    IN  /\ cache' = r.x.cache
        /\ dal' = [args |-> << >>] @@ Called("getBlockCount", 0, FALSE, r)
        /\ UNCHANGED store
        /\ UNCHANGED bridgeVars

\* getTransactionPool() is called and its chain runs to the end.
GetTransactionPool ==
    LET r == getTransactionPool(Ctx(cache))
    IN  /\ cache' = r.x.cache
        /\ dal' = [args |-> << >>] @@ Called("getTransactionPool", 0, FALSE, r)
        /\ UNCHANGED store
        /\ UNCHANGED bridgeVars

\* getBlocks(height, count) is called and its chain runs to the end.
GetBlocks(height, count) ==
    LET r == getBlocks(Ctx(cache), height, count)
    IN  /\ cache' = r.x.cache
        /\ dal' = [args |-> << height, count >>]
                      @@ Called("getBlocks", 0, FALSE, r)
        /\ UNCHANGED store
        /\ UNCHANGED bridgeVars

\* getTransaction(hash) is called and its chain runs to the end.
GetTransaction(hash) ==
    LET r == getTransaction(Ctx(cache), hash)
    IN  /\ cache' = r.x.cache
        /\ dal' = [args |-> << hash >>] @@ Called("getTransaction", 0, FALSE, r)
        /\ UNCHANGED store
        /\ UNCHANGED bridgeVars

\* getTransactionsStatus(hashes) is called and its chain runs to the end.
GetTransactionsStatus(hashes) ==
    LET r == getTransactionsStatus(Ctx(cache), hashes)
    IN  /\ cache' = r.x.cache
        /\ dal' = [args |-> << hashes >>]
                      @@ Called("getTransactionsStatus", 0, FALSE, r)
        /\ UNCHANGED store
        /\ UNCHANGED bridgeVars

\* getAmountKeys(amount, globalIndexes) is called and its chain runs to the
\* end.
GetAmountKeys(amount, globalIndexes) ==
    LET r == getAmountKeys(Ctx(cache), amount, globalIndexes)
    IN  /\ cache' = r.x.cache
        /\ dal' = [args |-> << amount, globalIndexes >>]
                      @@ Called("getAmountKeys", 0, FALSE, r)
        /\ UNCHANGED store
        /\ UNCHANGED bridgeVars

\* The collection agent, which is the writer of the store, records the next
\* block of the chain.
AppendBlock ==
    /\ Len(store.blocks) < MaxBlocks + 1
    /\ store' = [store EXCEPT !.blocks =
                    Append(@, [hash |-> BlockHash(Len(@) + 1),
                               height |-> Len(@) + 1,
                               timestamp |-> (Len(@) + 1) * 100])]
    /\ UNCHANGED << cache, dal >>
    /\ UNCHANGED bridgeVars

\* The stores of the reads below: a chain of up to MaxBlocks + 1 blocks whose
\* block 1 holds complete transactions, and a pool.
ChainStores ==
    { WithPool(s, pool) :
        s \in {EmptyStore} \cup
               { StoreOf(n, txs, 1, 2, 1, 1) :
                   n \in 1 .. MaxBlocks + 1, txs \in SUBSET {"t1", "t2"} },
        pool \in SUBSET {"t1", "t3"} }

ChainInit ==
    /\ BridgeInit
    /\ store \in ChainStores
    /\ cache = << >>
    /\ dal = NoDalCall

\* The arguments of getBlocks: the blocks up to a height of the chain, by
\* default or two of them, and two calls for 23 blocks up to height 1 and for
\* 3 blocks up to height 12.
BlocksArgs ==
    ((1 .. MaxBlocks + 1) \X {0, 2}) \cup {<< 1, 23 >>, << 12, 3 >>}

BlocksNext ==
    \/ \E a \in BlocksArgs : GetBlocks(a[1], a[2])
    \/ GetBlockCount
    \/ GetTransactionPool
    \/ \E ttl \in Lifetimes : Expire(ttl)

\* The readers of the block list, the block count and the pool.
SpecBlocks == ChainInit /\ [][BlocksNext]_vars

HeadersNext ==
    \/ GetLastBlockHeader
    \/ \E height \in 1 .. MaxBlocks + 2 : GetBlockHeaderByHeight(height)
    \/ \E height \in 1 .. MaxBlocks + 2 :
          GetBlockHeaderByHash(BlockHash(height))
    \/ \E ttl \in Lifetimes : Expire(ttl)

\* The readers of block headers over a store that does not change.
SpecHeaders == ChainInit /\ [][HeadersNext]_vars

\* The readers of block headers while the chain grows.
SpecChain == ChainInit /\ [][HeadersNext \/ AppendBlock]_vars

TxnNext ==
    \/ \E hash \in {"t1", "t2", "t9"} : GetTransaction(hash)
    \/ \E ttl \in Lifetimes : Expire(ttl)

\* The reader of single transactions.
SpecTxn == ChainInit /\ [][TxnNext]_vars

\* findCurrentSyncHeight is called and its chain runs to the end.
FindCurrentSyncHeight(knownBlockHashes, startHeight, startTimestamp) ==
    LET r == findCurrentSyncHeight(Ctx(cache), knownBlockHashes, startHeight,
                                   startTimestamp)
    IN  /\ cache' = r.x.cache
        /\ dal' = [args |-> << knownBlockHashes, startHeight, startTimestamp >>]
                      @@ Called("findCurrentSyncHeight", 0, FALSE, r)
        /\ UNCHANGED store
        /\ UNCHANGED bridgeVars

SyncNext ==
    \/ \E a \in { << << >>, 0, 0 >>,
                    << << BlockHash(1) >>, 0, 0 >>,
                    << << BlockHash(MaxBlocks + 1), BlockHash(1) >>, 0, 150 >>,
                    << << "b0" >>, MaxBlocks + 2, 0 >>,
                    << << >>, 0, 100 * (MaxBlocks + 1) >>,
                    << << BlockHash(1) >>, 1, 23 >>,
                    << << BlockHash(1) >>, 12, 3 >> } :
          FindCurrentSyncHeight(a[1], a[2], a[3])
    \/ \E ttl \in Lifetimes : Expire(ttl)

\* The resolver of the height at which a wallet resumes its scan.
SpecSync == ChainInit /\ [][SyncNext]_vars

\* The stores of the lookups below: as ChainStores, with every amount for
\* the output rows.
LookupStores ==
    { WithPool(StoreOf(1, txs, cbOut, 2, outs, 1), pool) :
        txs \in SUBSET {"t1", "t2"}, cbOut \in 1 .. MaxAmount,
        outs \in 1 .. MaxAmount, pool \in SUBSET {"t1", "t3"} }

LookupInit ==
    /\ BridgeInit
    /\ store \in LookupStores
    /\ cache = << >>
    /\ dal = NoDalCall

LookupNext ==
    \/ \E hashes \in { << "t1" >>, << "t3", "t1" >>, << "t2", "t9", "t9" >> } :
          GetTransactionsStatus(hashes)
    \/ \E amount \in 1 .. MaxAmount,
          globalIndexes \in { << >>, << 1 >>, << 2 >>, << 1, 2 >>, << 2, 2 >> } :
          GetAmountKeys(amount, globalIndexes)
    \/ \E ttl \in Lifetimes : Expire(ttl)

\* The readers of transaction status and of output keys.
SpecLookup == LookupInit /\ [][LookupNext]_vars

\* A store of the output sampler: counts[a] outputs of amount a, numbered
\* from 0 in transaction_outputs, and the greatest of these numbers in
\* transaction_outputs_index_maximums when there is any.
OutputsStore(counts) ==
    LET RowsFrom[a \in 1 .. MaxAmount + 1] ==
            IF a > MaxAmount THEN << >>
            ELSE [g \in 1 .. counts[a] |->
                    [txnHash |-> "t1", outputIndex |-> g - 1,
                     globalIndex |-> g - 1, key |-> << "o", a, g - 1 >>,
                     amount |-> a, type |-> 2]] \o RowsFrom[a + 1]
        MaxFrom[a \in 1 .. MaxAmount + 1] ==
            IF a > MaxAmount THEN << >>
            ELSE (IF counts[a] = 0 THEN << >>
                  ELSE << [amount |-> a, globalIndex |-> counts[a] - 1] >>)
                 \o MaxFrom[a + 1]
    IN  [maximums |-> MaxFrom[1]]
            @@ [EmptyStore EXCEPT !.outputs = RowsFrom[1]]

\* SELECT amount, globalIndex FROM transaction_outputs_index_maximums
\* WHERE amount = ? OR ...
MaximumsOf(dedupedAmounts) ==
    SelectSeq(store.maximums, LAMBDA row : row.amount \in dedupedAmounts)

\* The sequences the loop around Random(0, globalIndex) can leave in rnds:
\* dedupedMixin different numbers of 0 .. globalIndex, in the order drawn.
\* There is none when fewer numbers than that exist: the loop does not end.
Rnds(globalIndex, dedupedMixin) ==
    { rnds \in [1 .. dedupedMixin -> 0 .. globalIndex] :
        \A i, j \in 1 .. dedupedMixin : i # j => rnds[i] # rnds[j] }

\* SELECT amount, globalIndex AS global_amount_index, key AS out_key
\* FROM transaction_outputs WHERE (amount = ? AND globalIndex = ?) OR ...
\* ORDER BY amount ASC, for the numbers drawn for the maximums from the i-th
\* on.  The statement leaves the order of the rows of one amount open; they
\* are taken in the order drawn, which ranges over every order.
RECURSIVE RandomOutputRows(_, _, _)
RandomOutputRows(results, drawn, i) ==
    IF i > Len(results) THEN << >>
    ELSE LET Row(g) ==
                 SelectSeq(store.outputs,
                           LAMBDA row : row.amount = results[i].amount
                                           /\ row.globalIndex = g)
             RowsOf[n \in 0 .. Len(drawn[i])] ==
                 IF n = 0 THEN << >>
                 ELSE RowsOf[n - 1]
                      \o [k \in 1 .. Len(Row(drawn[i][n])) |->
                            [amount |-> Row(drawn[i][n])[k].amount,
                             global_amount_index |->
                                 Row(drawn[i][n])[k].globalIndex,
                             out_key |-> Row(drawn[i][n])[k].key]]
         IN  RowsOf[Len(drawn[i])] \o RandomOutputRows(results, drawn, i + 1)

\* The last step of getRandomOutputsForAmounts: the rows are cut into one
\* object per amount and per `mixin` rows; an object is sorted when the
\* next one begins, and the last one is pushed as it stands.
RECURSIVE GroupOutputs(_, _, _, _)
GroupOutputs(results, curObject, response, mixin) ==
    IF results = << >> THEN Append(response, curObject)
    ELSE LET result == Head(results)
             fresh == \/ result.amount # curObject.amount
                      \/ Len(curObject.outs) = mixin
             sorted == [curObject EXCEPT !.outs =
                          SortSeq(@, LAMBDA a, b : a.global_amount_index
                                                     < b.global_amount_index)]
             out == [global_amount_index |-> result.global_amount_index,
                     out_key |-> result.out_key]
         IN  GroupOutputs(
                 Tail(results),
                 IF fresh THEN [amount |-> result.amount, outs |-> << out >>]
                 ELSE [curObject EXCEPT !.outs = Append(@, out)],
                 IF fresh /\ curObject.amount # -1
                 THEN Append(response, sorted) ELSE response,
                 mixin)

\* getRandomOutputsForAmounts(amounts, mixin): the set of the ways the
\* promise it returns can end, one for every draw of random numbers.  The
\* promise stays pending when the loop that draws them does not end.
getRandomOutputsForAmounts(amounts, mixinCount) ==
    LET mixin == mixinCount + 1
        dedupedAmounts == { amounts[i] : i \in 1 .. Len(amounts) }
        mixinCounts == [amount \in dedupedAmounts |->
                          mixin * Cardinality({ i \in 1 .. Len(amounts) :
                                                  amounts[i] = amount })]
        results == MaximumsOf(dedupedAmounts)
        Short(i) == results[i].globalIndex < mixin
        Endless(i) == mixinCounts[results[i].amount]
                          > results[i].globalIndex + 1
        stops == { i \in 1 .. Len(results) : Short(i) \/ Endless(i) }
        first == CHOOSE i \in stops : \A j \in stops : i <= j
        Draws[i \in 1 .. Len(results) + 1] ==
            IF i > Len(results) THEN { << >> }
            ELSE { << rnds >> \o rest :
                     rnds \in Rnds(results[i].globalIndex,
                                   mixinCounts[results[i].amount]),
                     rest \in Draws[i + 1] }
        Ends(p, q) ==
            [hit |-> FALSE, p |-> p, x |-> [NoCache EXCEPT !.q = q]]
    IN  IF Len(results) # Cardinality(dedupedAmounts)
        THEN { Ends(Rejected("No prior outputs exist for one of the supplied amounts"), 1) }
        ELSE IF stops # {}
        THEN { Ends(IF Short(first)
                    THEN Rejected("Not enough mixins available to satisfy the request")
                    ELSE Pending, 1) }
        ELSE { Ends(Resolved(Arr(GroupOutputs(
                        RandomOutputRows(results, drawn, 1),
                        [amount |-> -1, outs |-> << >>], << >>, mixin))), 2) :
                 drawn \in Draws[1] }

\* getRandomOutputsForAmounts is called and its promise ends in one of the
\* ways it can.  There is no cache lookup and no cache write in it.
GetRandomOutputsForAmounts(amounts, mixinCount) ==
    /\ \E r \in getRandomOutputsForAmounts(amounts, mixinCount) :
          dal' = [args |-> << amounts, mixinCount >>]
                     @@ Called("getRandomOutputsForAmounts", 0, FALSE, r)
    /\ UNCHANGED << store, cache >>
    /\ UNCHANGED bridgeVars

SamplerInit ==
    /\ BridgeInit
    /\ store \in { OutputsStore(counts) :
                     counts \in [1 .. MaxAmount -> 0 .. MaxOutputs] }
    /\ cache = << >>
    /\ dal = NoDalCall

SamplerNext ==
    \E amounts \in { << 1 >>, << 1, 1 >>, << 1, 2 >>, << 2, 1 >> },
       mixinCount \in 1 .. MaxMixin :
       GetRandomOutputsForAmounts(amounts, mixinCount)

\* The sampler of outputs over a store that does not change.
SpecSampler == SamplerInit /\ [][SamplerNext]_vars

\* A key that two different reads share.
HeaderKey_Last(height) == "getLastBlockHeader"

\* const cacheName = 'getBlockHeaderByHeight' + height
HeaderKey(height) == "getBlockHeaderByHeight" \o ToString(height)

\* A getBlockHeaderByHeight call in flight: pc is the callback of its chain
\* that runs next and p its promise; lpc and top are the same for the
\* getLastBlockHeader call it makes; hit tells whether its own lookup found
\* an entry.
ReadStarted ==
    [pc |-> "check", p |-> Pending, hit |-> FALSE, topHeight |-> 0,
     lpc |-> "idle", top |-> Pending]

\* One callback of the chain of getLastBlockHeader inside read i runs: the
\* lookup, the two statements, the cache write (not waited for) and the
\* resolve.  After a hit the rest of the chain runs all the same.
LastStep(i) ==
    LET r == dal.reads[i]
        Becomes(read) == dal' = [dal EXCEPT !.reads[i] = read]
        cached == checkCache(Ctx(cache), "getLastBlockHeader")
    IN  /\ dal.op = "reads"
        /\ \/ /\ r.lpc = "check"
              /\ Becomes([r EXCEPT !.lpc = "block",
                                   !.top = IF Falsy(cached) THEN Pending
                                           ELSE Resolved(cached)])
              /\ UNCHANGED cache
           \/ /\ r.lpc = "block"
              /\ Becomes(IF Len(TopBlock) = 0
                         THEN [r EXCEPT !.lpc = "done",
                                 !.top = Settle(@, Rejected(
                                    "No blocks found in backend storage"))]
                         ELSE [r EXCEPT !.lpc = "count"])
              /\ UNCHANGED cache
           \/ /\ r.lpc = "count"
              /\ Becomes([r EXCEPT !.lpc = "set"])
              /\ UNCHANGED cache
           \/ /\ r.lpc = "set"
              /\ Becomes([r EXCEPT !.lpc = "resolve"])
              /\ cache' = setCache(Ctx(cache), "getLastBlockHeader",
                                   Header(TopBlock[1], 0), 5).cache
           \/ /\ r.lpc = "resolve"
              /\ Becomes([r EXCEPT !.lpc = "done",
                            !.top = Settle(@, Resolved(Header(TopBlock[1],
                                                              0)))])
              /\ UNCHANGED cache
        /\ UNCHANGED store
        /\ UNCHANGED bridgeVars

\* One callback of the chain of getBlockHeaderByHeight(dal.height) in read
\* i runs: the lookup (after which getLastBlockHeader is called, hit or
\* not), the callback that takes its result, the two statements, the cache
\* write (not waited for) and the resolve.
ReadStep(i) ==
    LET r == dal.reads[i]
        Becomes(read) == dal' = [dal EXCEPT !.reads[i] = read]
        cached == checkCache(Ctx(cache), HeaderKey(dal.height))
        obj == Header(BlockAtHeight(dal.height)[1], r.topHeight - dal.height)
    IN  /\ dal.op = "reads"
        /\ \/ /\ r.pc = "check"
              /\ Becomes([r EXCEPT !.pc = "top", !.lpc = "check",
                                   !.hit = ~Falsy(cached),
                                   !.p = IF Falsy(cached) THEN Pending
                                         ELSE Resolved(cached)])
              /\ UNCHANGED cache
           \/ /\ r.pc = "top"
              /\ r.top.kind # "pending"
              /\ Becomes(IF r.top.kind = "rejected"
                         THEN [r EXCEPT !.pc = "done",
                                 !.p = Settle(@, Rejected(r.top.error))]
                         ELSE [r EXCEPT !.pc = "block",
                                 !.topHeight = r.top.value.v.height])
              /\ UNCHANGED cache
           \/ /\ r.pc = "block"
              /\ Becomes(IF Len(BlockAtHeight(dal.height)) = 0
                         THEN [r EXCEPT !.pc = "done",
                                 !.p = Settle(@, Rejected(
                                          "Requested block not found"))]
                         ELSE [r EXCEPT !.pc = "count"])
              /\ UNCHANGED cache
           \/ /\ r.pc = "count"
              /\ Becomes([r EXCEPT !.pc = "set"])
              /\ UNCHANGED cache
           \/ /\ r.pc = "set"
              /\ Becomes([r EXCEPT !.pc = "resolve"])
              /\ cache' = setCache(Ctx(cache), HeaderKey(dal.height), obj,
                                   10).cache
           \/ /\ r.pc = "resolve"
              /\ Becomes([r EXCEPT !.pc = "done",
                                   !.p = Settle(@, Resolved(obj))])
              /\ UNCHANGED cache
        /\ UNCHANGED store
        /\ UNCHANGED bridgeVars

\* Two getBlockHeaderByHeight calls for the same height have been made and
\* nothing is cached.
ReadsInit ==
    /\ BridgeInit
    /\ store \in {EmptyStore} \cup
                   { StoreOf(n, txs, 1, 2, 1, 1) :
                       n \in 1 .. MaxBlocks + 1, txs \in {{}, {"t1", "t2"}} }
    /\ cache = << >>
    /\ dal \in { [op |-> "reads", height |-> height,
                  reads |-> [i \in 1 .. 2 |-> ReadStarted]] :
                   height \in 1 .. MaxBlocks + 2 }

ReadsNext ==
    \/ \E i \in 1 .. 2 : ReadStep(i)
    \/ \E i \in 1 .. 2 : LastStep(i)
    \/ \E ttl \in Lifetimes : Expire(ttl)

\* Two equal reads of a block header side by side, over a store that does
\* not change.
SpecReads == ReadsInit /\ [][ReadsNext]_vars

\* The read named by call, made in context x.
Read(x, call) ==
    CASE call.op = "getLastBlockHeader" -> getLastBlockHeader(x)
      [] call.op = "getBlockHeaderByHeight" ->
            getBlockHeaderByHeight(x, call.height)
      [] call.op = "getBlockCount" -> getBlockCount(x)
      [] call.op = "getTransaction" -> getTransaction(x, call.args[1])

\* A read is made while the redis client answers the commands in fails with
\* an error, and its chain runs to the end.
ReadWhile(call, fails) ==
    LET r == Read([Ctx(cache) EXCEPT !.fails = fails], call)
    IN  /\ cache' = r.x.cache
        /\ dal' = [args |-> call.args, fails |-> fails]
                      @@ Called(call.op, call.height, FALSE, r)
        /\ UNCHANGED store
        /\ UNCHANGED bridgeVars

OutageNext ==
    \/ \E call \in
            { [op |-> "getLastBlockHeader", height |-> 0, args |-> << >>],
              [op |-> "getBlockCount", height |-> 0, args |-> << >>],
              [op |-> "getTransaction", height |-> 0, args |-> << "t2" >>] }
            \cup { [op |-> "getBlockHeaderByHeight", height |-> height,
                      args |-> << >>] : height \in 1 .. MaxBlocks + 1 },
          fails \in SUBSET {"get", "set"} :
          ReadWhile(call, fails)
    \/ \E ttl \in Lifetimes : Expire(ttl)

OutageInit ==
    /\ BridgeInit
    /\ store \in { StoreOf(n, txs, 1, 2, 1, 1) :
                     n \in 0 .. MaxBlocks + 1, txs \in {{}, {"t2"}} }
    /\ cache = << >>
    /\ dal = NoDalCall

\* The readers while the cache backend fails now and then.
SpecOutage == OutageInit /\ [][OutageNext]_vars

\* A store of the wallet scans: n blocks, each with its coinbase
\* transaction, whose output row is missing for the heights in bare.
SyncStore(n, bare) ==
    [EmptyStore EXCEPT
       !.blocks = [h \in 1 .. n |-> [hash |-> BlockHash(h), height |-> h,
                                     timestamp |-> h * 100]],
       !.transactions =
           [h \in 1 .. n |-> [txnHash |-> "c" \o ToString(h),
                              blockHash |-> BlockHash(h),
                              totalInputsAmount |-> 0,
                              totalOutputsAmount |-> 1, fee |-> 0]],
       !.outputs =
           SelectSeq([h \in 1 .. n |->
                        [txnHash |-> "c" \o ToString(h), outputIndex |-> 0,
                         globalIndex |-> h, key |-> "o" \o ToString(h),
                         amount |-> 1, type |-> 2]],
                     LAMBDA row : row.globalIndex \notin bare)]

\* checkBlockCount(blockCount): 100 for a count that is absent (or 0), else
\* its absolute value, at most 100.
checkBlockCount(blockCount) ==
    LET given == IF blockCount = 0 THEN 100 ELSE blockCount
        abs == IF given < 0 THEN 0 - given ELSE given
    IN  IF abs > 100 THEN 100 ELSE abs

\* blocks.sort((a, b) => (a.blockHeight > b.blockHeight) ? 1 : -1) on the
\* objects of buildWalletDataBlock, which have height and no blockHeight:
\* the comparison is undefined > undefined and the function answers -1 for
\* every pair.  The order a sort leaves with such a function is up to the
\* engine (insertion sort leaves the array as it is, a merge of runs turns
\* it around), so every order of the blocks is a possible one.
SortedByBlockHeight(blocks) ==
    { [i \in 1 .. Len(blocks) |-> blocks[order[i]]] :
        order \in { o \in [1 .. Len(blocks) -> 1 .. Len(blocks)] :
                      \A i, j \in 1 .. Len(blocks) : i # j => o[i] # o[j] } }

\* getWalletSyncDataByHeight(scanHeight, blockCount): the ways its promise
\* can end.  Promise.all starts buildWalletDataBlock for every block row of
\* the range and rejects when one of them does.
getWalletSyncDataByHeight(x, scanHeight, blockCount) ==
    LET blocks == SelectSeq(WalletBlockRows,
                            LAMBDA b : /\ b.height >= scanHeight
                                       /\ b.height < scanHeight
                                            + checkBlockCount(blockCount))
        Built[i \in 0 .. Len(blocks)] ==
            IF i = 0 THEN [x |-> query(x), ps |-> << >>]
            ELSE LET r == buildWalletDataBlock(Built[i - 1].x, blocks[i])
                 IN  [x |-> r.x, ps |-> Append(Built[i - 1].ps, r.p)]
        all == Built[Len(blocks)]
        failed == { i \in 1 .. Len(blocks) : all.ps[i].kind = "rejected" }
    IN  IF failed # {}
        THEN { [hit |-> FALSE, x |-> all.x,
                p |-> Rejected(all.ps[CHOOSE i \in failed :
                                         \A j \in failed : i <= j].error)] }
        ELSE { [hit |-> FALSE, x |-> all.x, p |-> Resolved(Arr(sorted))] :
                 sorted \in SortedByBlockHeight(
                               [i \in 1 .. Len(blocks) |-> all.ps[i].value]) }

\* getWalletSyncDataByHeight is called, the chains of its blocks run to the
\* end and its promise ends in one of the ways it can.
GetWalletSyncDataByHeight(scanHeight, blockCount) ==
    /\ \E r \in getWalletSyncDataByHeight(Ctx(cache), scanHeight, blockCount) :
          /\ cache' = r.x.cache
          /\ dal' = [args |-> << scanHeight, blockCount >>]
                        @@ Called("getWalletSyncDataByHeight", 0, FALSE, r)
    /\ UNCHANGED store
    /\ UNCHANGED bridgeVars

WalletInit ==
    /\ BridgeInit
    /\ store \in { SyncStore(n, bare) :
                     n \in 0 .. MaxBlocks + 1, bare \in SUBSET {1} }
    /\ cache = << >>
    /\ dal = NoDalCall

WalletNext ==
    \/ \E scanHeight \in {-99, 0, 1, 2}, blockCount \in {-2, 0, 1, 2, 100, 150} :
          GetWalletSyncDataByHeight(scanHeight, blockCount)
    \/ \E ttl \in Lifetimes : Expire(ttl)

\* The wallet scans over a store that does not change.
SpecWallet == WalletInit /\ [][WalletNext]_vars

\* The data access layer at rest: an empty store, an empty cache, no call.
DalIdle ==
    /\ store = EmptyStore
    /\ cache = << >>
    /\ dal = NoDalCall

InitBridge == BridgeInit /\ DalIdle

\* The bridge alone, beside a data access layer at rest.
\* getTransactionInputs(hash, trim) or getTransactionOutputs(hash, trim) is
\* called and its chain runs to the end; a call without trim has trim = true.
GetTransactionRows(op, hash, trim) ==
    LET r == IF op = "getTransactionInputs"
             THEN getTransactionInputs(Ctx(cache), hash, trim)
             ELSE getTransactionOutputs(Ctx(cache), hash, trim)
    IN  /\ cache' = r.x.cache
        /\ dal' = [args |-> << hash >>, trim |-> trim]
                      @@ Called(op, 0, FALSE, r)
        /\ UNCHANGED store
        /\ UNCHANGED bridgeVars

RowsNext ==
    \/ \E op \in {"getTransactionInputs", "getTransactionOutputs"},
          hash \in {"t1", "t2", "t9"}, trim \in BOOLEAN :
          GetTransactionRows(op, hash, trim)
    \/ \E ttl \in Lifetimes : Expire(ttl)

\* The readers of the input and output rows of a transaction.
SpecRows == ChainInit /\ [][RowsNext]_vars

\* legacyGetWalletSyncDataPreflight is called and its chain runs to the end.
LegacyGetWalletSyncDataPreflight(startHeight, startTimestamp, blockHashCheckpoints, skipCoinbaseTransactions) ==
    LET r == legacyGetWalletSyncDataPreflight(Ctx(cache), startHeight,
                                              startTimestamp,
                                              blockHashCheckpoints,
                                              skipCoinbaseTransactions)
    IN  /\ cache' = r.x.cache
        /\ dal' = [args |-> << startHeight, startTimestamp,
                               blockHashCheckpoints >>]
                      @@ Called("legacyGetWalletSyncDataPreflight", 0,
                                skipCoinbaseTransactions, r)
        /\ UNCHANGED store
        /\ UNCHANGED bridgeVars

\* The arguments of the preflight: a scan from the start, one resumed behind
\* the last block of the chain, one from a timestamp with a checkpoint, and
\* one from a height above the chain.
PreflightArgs ==
    { << 0, 0, << >> >>,
      << 0, 0, << BlockHash(MaxBlocks + 1), BlockHash(1) >> >>,
      << 0, 150, << BlockHash(1) >> >>,
      << MaxBlocks + 3, 0, << >> >> }

PreflightInit ==
    /\ BridgeInit
    /\ store \in { StoreOf(n, txs, 1, 2, 1, 1) :
                      n \in 0 .. MaxBlocks, txs \in {{}, {"t1", "t2"}} }
    /\ cache = << >>
    /\ dal = NoDalCall

PreflightNext ==
    \/ \E a \in PreflightArgs, skipCoinbaseTransactions \in BOOLEAN :
          LegacyGetWalletSyncDataPreflight(a[1], a[2], a[3],
                                           skipCoinbaseTransactions)
    \/ AppendBlock
    \/ \E ttl \in Lifetimes : Expire(ttl)

\* The preflight of the legacy wallet scan while the chain grows.
SpecPreflight == PreflightInit /\ [][PreflightNext]_vars

\* The value that the chain of a reader handed to setCache under the key of
\* the call, Null when it handed none: a reader that missed and resolved
\* hands on what it resolves with, getInfo the text of the payload.
Stored(call, r) ==
    IF r.hit \/ r.p.kind # "resolved" THEN Null
    ELSE IF call.op = "getInfo" THEN Str(Information[1].payload)
    ELSE r.p.value

\* A reader that caches what it found is called and its chain runs to the
\* end.
CachingCall(call) ==
    LET r == CASE call.op = "getLastBlockHeader" ->
                     getLastBlockHeader(Ctx(cache))
               [] call.op = "getTransactionPool" ->
                     getTransactionPool(Ctx(cache))
               [] call.op = "getBlockHash" ->
                     getBlockHash(Ctx(cache), call.height)
               [] call.op = "getBlockHeight" ->
                     getBlockHeight(Ctx(cache), call.hash)
               [] call.op = "getBlockCount" -> getBlockCount(Ctx(cache))
               [] call.op = "getInfo" -> getInfo(Ctx(cache))
    IN  /\ cache' = r.x.cache
        /\ dal' = [key |-> call.key, stored |-> Stored(call, r)]
                      @@ Called(call.op, 0, FALSE, r)
        /\ UNCHANGED store
        /\ UNCHANGED bridgeVars

CachingCalls ==
    { [op |-> "getLastBlockHeader", key |-> "getLastBlockHeader"],
      [op |-> "getTransactionPool", key |-> "getBlockCount"],
      [op |-> "getBlockCount", key |-> "getBlockCount"],
      [op |-> "getInfo", key |-> "getInfo"] }
       \cup { [op |-> "getBlockHash", height |-> h,
               key |-> "getBlockHash" \o ToString(h)] : h \in 1 .. MaxBlocks + 1 }
       \cup { [op |-> "getBlockHeight", hash |-> BlockHash(h),
               key |-> "getBlockHeight" \o BlockHash(h)] :
                 h \in 1 .. MaxBlocks + 1 }

RoundTripInit ==
    /\ BridgeInit
    /\ store \in { WithPool(StoreOf(n, {}, 1, 2, 1, 1), pool) :
                      n \in 0 .. MaxBlocks + 1, pool \in SUBSET {"t3"} }
    /\ cache = << >>
    /\ dal = NoDalCall

RoundTripNext ==
    \/ \E call \in CachingCalls : CachingCall(call)
    \/ \E ttl \in Lifetimes : Expire(ttl)

\* The readers that cache an object, an array, a string or a number.
SpecRoundTrip == RoundTripInit /\ [][RoundTripNext]_vars

SpecBridge == InitBridge /\ [][BridgeNext]_vars

\* The bridge with timers that fire: a timer set with setTimeout fires unless
\* it is cleared.
FairTimers == SpecBridge /\ WF_vars(\E c \in Calls : Timeout(c))

\* The bridge with a broker that redelivers fairly: while a ready message has
\* a consumer whose callback takes it, such a delivery eventually happens.
FairDelivery ==
    SpecBridge
      /\ WF_vars(\E m \in 1 .. MaxMsgs, c \in Calls : Deliver(m, c) /\ Matches(m, c))

(***************************************************************************)
(* RPC bridge: claims                                                      *)
(***************************************************************************)
Settled(c) == calls[c].state \in {"resolved", "rejected"}

\* C3: a message of the reply queue resolves only the call whose
\* correlationId it carries, resolves it with its own payload and is then
\* acknowledged exactly once (and gone from the queue); no message is
\* acknowledged twice and no message resolves two calls.
C3_ReplyRouting ==
    /\ \A c \in Calls :
          calls[c].state = "resolved" =>
             /\ calls[c].by \in 1 .. Len(msgs)
             /\ msgs[calls[c].by].corr = c
             /\ calls[c].result = PayloadOf(calls[c].by)
             /\ msgs[calls[c].by].acks = 1
             /\ calls[c].by \notin rq.ready
    /\ \A m \in 1 .. Len(msgs) :
          /\ msgs[m].acks <= 1
          /\ msgs[m].acks = 1 => (m \notin rq.ready /\ msgs[m].corr \in Calls)
    /\ \A c \in Calls, d \in Calls :
          (c # d /\ calls[c].state = "resolved" /\ calls[d].state = "resolved")
             => calls[c].by # calls[d].by

\* Two calls are in flight, and one of them is resolved by its reply while the
\* other is still pending.
C3_Witness ==
    \E c \in Calls, d \in Calls :
       /\ calls[c].state = "resolved"
       /\ calls[d].state = "pending"
       /\ d \in Consumers

C5_Settles ==
    /\ \A c \in Calls : (calls[c].state = "pending") ~> Settled(c)
    /\ [](\A c \in Calls :
            calls[c].state = "rejected" =>
               (calls[c].error = "Timeout" /\ calls[c].timer = "fired"))

\* A call is rejected with Timeout while its request still waits in the work
\* queue (nobody consumed it) and after the link was lost while it was pending.
C5_Witness ==
    \E c \in Calls :
       /\ calls[c].state = "rejected"
       /\ calls[c].error = "Timeout"
       /\ calls[c].offline
       /\ << c, calls[c].chan >> \in publishedOn
       /\ [corr |-> c, replyTo |-> replyQueue] \in workQ

\* C6: once a call has settled, no consumer callback for its correlationId is
\* registered on the reply queue any more.
C6_NoLeak == \A c \in Calls : Settled(c) => c \notin Consumers

\* C7: the reply queue has at most one consumer at any time.
C7_SingleConsumer == Cardinality(Consumers) <= 1

\* C8: a step in which the link is lost changes no call, and a call leaves
\* the pending state only by a reply carrying its correlationId or by its own
\* timer firing.
C8_DisconnectSettlesNothing ==
    [][ /\ (liveConn # 0 /\ liveConn' = 0) => calls' = calls
        /\ \A c \in Calls :
              (calls[c].state = "pending" /\ calls'[c].state # "pending") =>
                 \/ /\ calls'[c].state = "resolved"
                    /\ calls'[c].by \in rq.ready
                    /\ msgs[calls'[c].by].corr = c
                 \/ /\ calls'[c].state = "rejected"
                    /\ calls[c].timer = "armed"
                    /\ calls'[c].timer = "fired" ]_vars

\* A call whose request was published on a live channel is still pending after
\* that channel was lost and the bridge has started to reconnect.
C8_Witness ==
    \E c \in Calls :
       /\ calls[c].state = "pending"
       /\ << c, calls[c].chan >> \in publishedOn
       /\ calls[c].chan # liveConn
       /\ gen > calls[c].chan

\* C9: when a reconnect attempt has failed, another attempt follows: the
\* bridge can still take a step that moves its connection on.
C9_KeepsRetrying ==
    connPc = "failed" => ENABLED (BridgeNext /\ connPc' # connPc)

\* C10: 'connect' is signalled only for a connection on which the reply queue
\* was declared, under the name chosen in the constructor, and a request
\* reaches the broker only on a channel whose reply queue is declared.
C10_QueueBeforeService ==
    /\ signalled \subseteq declared
    /\ \A p \in publishedOn : p[2] \in declared
    /\ rq.owner # 0 => rq.name = replyQueue
    /\ \A req \in workQ : req.replyTo = replyQueue
    /\ (connPc = "connected" /\ liveConn = gen) => rq.owner = gen

\* After a reconnect, a request issued on the new channel has reached the
\* broker.
C10_Witness ==
    /\ gen > 1
    /\ connPc = "connected"
    /\ \E c \in Calls : << c, gen >> \in publishedOn

(***************************************************************************)
(* Data access layer: claims                                               *)
(***************************************************************************)
\* The stored rows of transaction row t break a per-transaction rule: the
\* transaction has neither inputs nor outputs, or its inputs, its outputs or
\* its fee do not add up to what the row records. A coinbase transaction
\* (totalInputsAmount 0) is exempt from the input and fee rules where
\* coinbaseExempt is set.
TxnRowsViolate(t, coinbaseExempt) ==
    LET exempt == coinbaseExempt /\ t.totalInputsAmount = 0
        inputsTotal == SumAmounts(InputsOf(t.txnHash))
        outputsTotal == SumAmounts(OutputsOf(t.txnHash))
    IN  \/ Len(InputsOf(t.txnHash)) = 0 /\ Len(OutputsOf(t.txnHash)) = 0
        \/ ~exempt /\ inputsTotal # t.totalInputsAmount
        \/ outputsTotal # t.totalOutputsAmount
        \/ ~exempt /\ inputsTotal - outputsTotal # t.fee

\* The block at the given height has transaction rows, and they break a rule
\* of the current shape.
WalletRowsViolate(height) ==
    LET txns == TransactionsOf(BlockHash(height))
    IN  /\ Len(txns) > 0
        /\ \E i \in 1 .. Len(txns) : TxnRowsViolate(txns[i], TRUE)

\* The block at the given height has transaction rows, and they break a rule
\* of the legacy shape: there is not exactly one coinbase transaction, it has
\* no outputs, or another transaction breaks a per-transaction rule.
LegacyRowsViolate(height) ==
    LET txns == TransactionsOf(BlockHash(height))
        coinbases == SelectSeq(txns, LAMBDA t : t.totalInputsAmount = 0)
    IN  /\ Len(txns) > 0
        /\ \/ Len(coinbases) # 1
           \/ \E i \in 1 .. Len(coinbases) :
                 Len(OutputsOf(coinbases[i].txnHash)) = 0
           \/ \E i \in 1 .. Len(txns) :
                 /\ txns[i].totalInputsAmount # 0
                 /\ TxnRowsViolate(txns[i], FALSE)

\* C1: a call of buildWalletDataBlock or buildLegacyWalletDataBlock for a
\* block whose stored rows violate a consistency check fails, whether it is
\* the first call for that block or a later one: no call returns the block's
\* data.
C1_ViolatingBlockFails ==
    (\/ dal.op = "buildWalletDataBlock" /\ WalletRowsViolate(dal.height)
     \/ dal.op = "buildLegacyWalletDataBlock" /\ LegacyRowsViolate(dal.height))
       => dal.kind = "rejected"

\* C2: a read whose cache lookup was a hit returns the cached value at once:
\* it sends no statement to the store and writes nothing to the cache.
C2_HitTouchesNothing ==
    dal.hit => (dal.kind = "resolved" /\ dal.q = 0 /\ dal.w = 0)

\* The recorded call settled as the promise p did.
SameOutcome(p) ==
    /\ dal.kind = p.kind
    /\ dal.error = p.error
    /\ dal.value = p.value

\* C11: for fixed store contents every call, the first as well as a repeated
\* one, settles with a cache exactly as the same call settles on a
\* DatabaseBackend without a cache; without a cache setCache leaves everything
\* as it is and checkCache misses.
C11_SameWithoutCache ==
    /\ dal.op = "getLastBlockHeader" =>
          SameOutcome(getLastBlockHeader(NoCache).p)
    /\ dal.op = "getBlockHeaderByHeight" =>
          SameOutcome(getBlockHeaderByHeight(NoCache, dal.height).p)
    /\ dal.op = "buildWalletDataBlock" =>
          SameOutcome(buildWalletDataBlock(NoCache,
                                           WalletBlockRows[dal.height]).p)
    /\ dal.op = "buildLegacyWalletDataBlock" =>
          SameOutcome(buildLegacyWalletDataBlock(NoCache,
                                                 LegacyBlockRows[dal.height],
                                                 dal.skip).p)
    /\ setCache(NoCache, "getLastBlockHeader", Num(1), 5) = NoCache
    /\ checkCache([NoCache EXCEPT !.cache = cache], "getLastBlockHeader") = Null

\* The calls of the readers of the block list, the block count and the pool.
BlockCalls ==
    { [op |-> "getBlocks", args |-> a] : a \in BlocksArgs }
       \cup { [op |-> "getBlockCount", args |-> << >>],
               [op |-> "getTransactionPool", args |-> << >>] }

\* C12: the cache key derived for a call is derived for no other call: no
\* other operation and no other parameters of the same operation yield it.
C12_DistinctKeys ==
    dal.op \in {"getBlocks", "getBlockCount", "getTransactionPool"} =>
       \A c \in BlockCalls :
          (c.op # dal.op \/ c.args # dal.args) =>
             cacheName(c.op, c.args) # cacheName(dal.op, dal.args)

\* C13: a lookup of a key that is missing, has expired or holds an empty
\* array or an empty mapping is a miss: after set(k, [], ttl) the lookup of k
\* finds nothing.
C13_EmptyIsMiss ==
    \A c \in BlockCalls :
       LET data == RedisGet(cache, cacheName(c.op, c.args))
       IN  (\/ sha256(cacheName(c.op, c.args)) \notin DOMAIN cache
            \/ data.t = "arr" /\ Len(data.v) = 0
            \/ data.t = "obj" /\ DOMAIN data.v = {})
              => checkCache(Ctx(cache), cacheName(c.op, c.args)) = Null

\* getBlocks found no block in its range, set the empty array under its key,
\* and the key still holds it.
C13_Witness ==
    /\ dal.op = "getBlocks"
    /\ ~dal.hit
    /\ dal.w = 1
    /\ dal.value = Arr(<< >>)
    /\ sha256(cacheName("getBlocks", dal.args)) \in DOMAIN cache
    /\ RedisGet(cache, cacheName("getBlocks", dal.args)) = Arr(<< >>)

\* C14: no key of the cache holds an empty row set or an absent result.
C14_NoEmptyEntries ==
    \A k \in DOMAIN cache :
       /\ ~Falsy(JSONparse(cache[k].text))
       /\ ~(JSONparse(cache[k].text).t = "arr" /\ Len(JSONparse(cache[k].text).v) = 0)

\* C18: getBlocks(height, count) returns exactly the stored blocks whose
\* height lies in [height - count + 1, height], at most count of them, in
\* descending order of height, count being 30 when it is left out; whatever
\* calls of getBlocks with other parameters came before.
C18_BlocksInRange ==
    dal.op = "getBlocks" =>
       LET cnt == IF dal.args[2] = 0 THEN 30 ELSE dal.args[2]
           rows == dal.value.v
       IN  /\ dal.kind = "resolved"
           /\ Len(rows) <= cnt
           /\ { rows[i].height : i \in 1 .. Len(rows) }
                 = { store.blocks[i].height : i \in
                       { j \in 1 .. Len(store.blocks) :
                           /\ dal.args[1] - cnt + 1 <= store.blocks[j].height
                           /\ store.blocks[j].height <= dal.args[1] } }
           /\ \A i \in 1 .. Len(rows), j \in 1 .. Len(rows) :
                 i < j => rows[i].height > rows[j].height
           /\ \A i \in 1 .. Len(rows) :
                 \E j \in 1 .. Len(store.blocks) :
                    /\ store.blocks[j].hash = rows[i].hash
                    /\ store.blocks[j].height = rows[i].height

\* C15: a header that getBlockHeaderByHash or getBlockHeaderByHeight returns
\* carries depth = height of the top header as getLastBlockHeader resolves it
\* at the time of the call - height of the header: a depth computed by an
\* earlier call is not returned once the top has advanced.
C15_FreshDepth ==
    [][ (/\ dal' # dal
         /\ dal'.op \in {"getBlockHeaderByHash", "getBlockHeaderByHeight"}
         /\ dal'.kind = "resolved")
          => dal'.value.v.depth
                = getLastBlockHeader(Ctx(cache)).p.value.v.height
                     - dal'.value.v.height ]_vars

\* The errors that stand for NotFound.
NotFound ==
    {"No blocks found in backend storage", "Requested block not found",
     "Transaction not found"}

\* The recorded call is a header lookup for which the store has no row.
HeaderMissing ==
    \/ dal.op = "getLastBlockHeader" /\ Len(store.blocks) = 0
    \/ dal.op = "getBlockHeaderByHeight"
          /\ \A i \in 1 .. Len(store.blocks) :
                store.blocks[i].height # dal.height
    \/ dal.op = "getBlockHeaderByHash"
          /\ \A i \in 1 .. Len(store.blocks) :
                store.blocks[i].hash # dal.args[1]

\* The recorded call is a getLastBlockHeader that returned the header of the
\* stored block of maximum height, with depth 0.
TopHeaderReturned ==
    /\ dal.kind = "resolved"
    /\ dal.value.v.depth = 0
    /\ \E i \in 1 .. Len(store.blocks) :
          /\ store.blocks[i].hash = dal.value.v.hash
          /\ store.blocks[i].height = dal.value.v.height
          /\ \A j \in 1 .. Len(store.blocks) :
                store.blocks[j].height <= store.blocks[i].height

KeysFound(amount, globalIndexes) ==
    Cardinality({ i \in 1 .. Len(store.outputs) :
                    /\ store.outputs[i].amount = amount
                    /\ \E j \in 1 .. Len(globalIndexes) :
                          globalIndexes[j] = store.outputs[i].globalIndex })

\* C19: getAmountKeys(amount, globalIndexes) fails with a DataConsistency
\* error and caches nothing whenever the number of output rows found differs
\* from the number of indexes asked for; it succeeds only when they are equal.
C19_AmountKeys ==
    dal.op = "getAmountKeys" =>
       /\ KeysFound(dal.args[1], dal.args[2]) # Len(dal.args[2]) =>
             /\ dal.kind = "rejected"
             /\ dal.error = "Data consistency error, could not provide all keys for supplied globalIndexes"
             /\ dal.w = 0
             /\ sha256(cacheName("getAmountKeys", dal.args)) \notin DOMAIN cache
       /\ dal.kind = "resolved" =>
             /\ KeysFound(dal.args[1], dal.args[2]) = Len(dal.args[2])
             /\ Len(dal.value.v) = Len(dal.args[2])

\* getAmountKeys was asked for two indexes of an amount, found the key of one
\* of them and failed.
C19_Witness ==
    /\ dal.op = "getAmountKeys"
    /\ dal.kind = "rejected"
    /\ Len(dal.args[2]) = 2
    /\ KeysFound(dal.args[1], dal.args[2]) = 1

\* C20: getTransactionsStatus(hashes) puts every hash it was given in exactly
\* one of transactionsInPool, transactionsInBlock and transactionsUnknown,
\* a hash that is in the pool table and in the transactions table included.
C20_ExactlyOneStatus ==
    (dal.op = "getTransactionsStatus" /\ dal.kind = "resolved") =>
       \A i \in 1 .. Len(dal.args[1]) :
          LET hash == dal.args[1][i]
              lists == << dal.value.v.transactionsInPool,
                          dal.value.v.transactionsInBlock,
                          dal.value.v.transactionsUnknown >>
          IN  Cardinality({ l \in 1 .. 3 :
                              \E j \in 1 .. Len(lists[l]) : lists[l][j] = hash })
                 = 1

\* The greatest number of a non-empty finite set of numbers.
Greatest(S) == CHOOSE n \in S : \A m \in S : m <= n

\* C21: findCurrentSyncHeight(knownHashes, startHeight, startTimestamp)
\* returns the greatest of startHeight, 1 + the greatest height of a stored
\* block whose hash is known, and the greatest height of a stored block whose
\* timestamp is at most a given (positive) startTimestamp, 0 when none
\* applies; on a first call as on a repeated one.
C21_SyncHeight ==
    dal.op = "findCurrentSyncHeight" =>
       /\ dal.kind = "resolved"
       /\ dal.value =
             Num(Greatest(
                {0, dal.args[2]}
                   \cup { store.blocks[i].height + 1 :
                            i \in { j \in 1 .. Len(store.blocks) :
                                      \E k \in 1 .. Len(dal.args[1]) :
                                         dal.args[1][k] = store.blocks[j].hash } }
                   \cup { store.blocks[i].height :
                            i \in { j \in 1 .. Len(store.blocks) :
                                      /\ dal.args[3] > 0
                                      /\ store.blocks[j].timestamp
                                            <= dal.args[3] } }))

\* A call for a known block below the top, without startHeight and
\* startTimestamp, resolved the height after that block and left it in the
\* cache, where no later call finds it: a number has no keys.
C21_Witness ==
    /\ dal.op = "findCurrentSyncHeight"
    /\ dal.args = << << BlockHash(1) >>, 0, 0 >>
    /\ dal.value = Num(2)
    /\ Len(store.blocks) > 1
    /\ dal.q = 1
    /\ RedisGet(cache, cacheName("findCurrentSyncHeight", dal.args)) = Num(2)

\* The error of a failed consistency check.
DataConsistency == "Internal Data Consistency Error"

\* The rows gathered for the block at the given height pass the checks of the
\* current shape: as many transactions as the block records, each with an
\* input or an output, outputs that add up, and for each transaction that is
\* not a coinbase inputs and a fee that add up.
WalletRowsPass(height) ==
    LET txns == TransactionsOf(BlockHash(height))
    IN  /\ JoinedTxnCount(BlockHash(height)) = Len(txns)
        /\ \A i \in 1 .. Len(txns) : ~TxnRowsViolate(txns[i], TRUE)

\* C22: buildWalletDataBlock succeeds if and only if the rows gathered for
\* the block pass every check of the current shape, and it has fetched the
\* inputs and the outputs of every transaction by then.
C22_SucceedsIffConsistent ==
    dal.op = "buildWalletDataBlock" =>
       /\ dal.kind = "resolved" <=> WalletRowsPass(dal.height)
       /\ dal.q = 1 + 2 * Len(TransactionsOf(BlockHash(dal.height)))

\* C23: buildLegacyWalletDataBlock fails with a DataConsistency error unless
\* the transactions that are not coinbase, plus one, are as many as the block
\* records and each of them passes the input, output and fee checks.
C23_LegacyFailsUnlessConsistent ==
    dal.op = "buildLegacyWalletDataBlock" =>
       LET txns == SelectSeq(TransactionsOf(BlockHash(dal.height)),
                             LAMBDA t : t.totalInputsAmount # 0)
       IN  ~(/\ JoinedTxnCount(BlockHash(dal.height)) = Len(txns) + 1
             /\ \A i \in 1 .. Len(txns) : ~TxnRowsViolate(txns[i], FALSE))
              => (dal.kind = "rejected" /\ dal.error = DataConsistency)

\* C24: a block whose rows are right but for the inputs and the fee of its
\* coinbase transaction is assembled in either shape; a block whose coinbase
\* transaction has no output row, and in the legacy shape a block with
\* transactions of which none is a coinbase, fails with a DataConsistency
\* error.
C24_Coinbase ==
    LET txns == TransactionsOf(BlockHash(dal.height))
        coinbases == SelectSeq(txns, LAMBDA t : t.totalInputsAmount = 0)
        bare == \E i \in 1 .. Len(coinbases) :
                   Len(OutputsOf(coinbases[i].txnHash)) = 0
    IN  /\ dal.op = "buildWalletDataBlock" =>
              /\ bare => (dal.kind = "rejected" /\ dal.error = DataConsistency)
              /\ (Len(coinbases) > 0 /\ WalletRowsPass(dal.height)) =>
                    dal.kind = "resolved"
        /\ dal.op = "buildLegacyWalletDataBlock" =>
              /\ (bare \/ (Len(txns) > 0 /\ Len(coinbases) = 0)) =>
                    (dal.kind = "rejected" /\ dal.error = DataConsistency)
              /\ (Len(coinbases) = 1 /\ WalletRowsPass(dal.height)) =>
                    dal.kind = "resolved"

\* C25: a call of an assembler that follows a call for the same block with
\* the same arguments settles as that call did, be it served from the cache
\* or rebuilt.
C25_SameTwice ==
    [][ (/\ dal.op \in {"buildWalletDataBlock", "buildLegacyWalletDataBlock"}
         /\ dal' # dal
         /\ dal'.op = dal.op
         /\ dal'.height = dal.height
         /\ dal'.skip = dal.skip)
          => (/\ dal'.kind = dal.kind
              /\ dal'.error = dal.error
              /\ dal'.value = dal.value) ]_vars


\* The call of the sampler recorded in dal: its arguments, the number of
\* times an amount is asked for, the greatest index recorded for an amount
\* (-1 when none is) and the indices returned for an amount, group by group.
Sampled == dal.op = "getRandomOutputsForAmounts"

Asked(amount) ==
    Cardinality({ i \in 1 .. Len(dal.args[1]) : dal.args[1][i] = amount })

MaximumOf(amount) ==
    IF \E i \in 1 .. Len(store.maximums) : store.maximums[i].amount = amount
    THEN (CHOOSE row \in { store.maximums[i] :
                             i \in 1 .. Len(store.maximums) } :
             row.amount = amount).globalIndex
    ELSE -1

Returned(amount) ==
    { << g, n >> \in (1 .. Len(dal.value.v)) \X (1 .. 2 * (MaxOutputs + 1)) :
        /\ dal.value.v[g].amount = amount
        /\ n <= Len(dal.value.v[g].outs) }

\* C26: for each amount that occurs k times in the request, the sampler
\* selects exactly k * mixinCount indices, no two of them the same, each
\* between 0 and the greatest index known for that amount.
C26_DistinctIndices ==
    (Sampled /\ dal.kind = "resolved") =>
        \A amount \in 1 .. MaxAmount :
           Asked(amount) > 0 =>
              /\ Cardinality(Returned(amount)) = Asked(amount) * dal.args[2]
              /\ \A p, q \in Returned(amount) :
                    p # q =>
                       dal.value.v[p[1]].outs[p[2]].global_amount_index
                          # dal.value.v[q[1]].outs[q[2]].global_amount_index
              /\ \A p \in Returned(amount) :
                    dal.value.v[p[1]].outs[p[2]].global_amount_index
                       \in 0 .. MaximumOf(amount)

\* The two errors of the sampler that say the store holds too few outputs.
InsufficientMixins ==
    { "Not enough mixins available to satisfy the request",
      "No prior outputs exist for one of the supplied amounts" }

Insufficient == dal.kind = "rejected" /\ dal.error \in InsufficientMixins

\* C27: the sampler fails with InsufficientMixins exactly when some
\* requested amount has too few outputs.  Whenever a requested amount has
\* no recorded maximum, or a maximum below the mixin count, the call fails;
\* a call fails only if some amount has a maximum below the total asked of
\* it; and sample([A, A], 2) fails with 3 outputs of A and succeeds with 4.
C27_InsufficientMixins ==
    Sampled =>
       /\ (\E amount \in 1 .. MaxAmount :
              Asked(amount) > 0 /\ MaximumOf(amount) < dal.args[2])
             => Insufficient
       /\ Insufficient
             => \E amount \in 1 .. MaxAmount :
                   /\ Asked(amount) > 0
                   /\ MaximumOf(amount) < Asked(amount) * dal.args[2]
       /\ dal.kind = "rejected" => Insufficient
       /\ dal.args = << << 1, 1 >>, 2 >> =>
             /\ MaximumOf(1) = 2 => Insufficient
             /\ MaximumOf(1) >= 3 => dal.kind = "resolved"

\* The outputs of a group of the result are in ascending order of index.
Ascending(outs) ==
    \A i, j \in 1 .. Len(outs) :
       i < j => outs[i].global_amount_index < outs[j].global_amount_index

\* C28: the result has one group per requested occurrence of an amount,
\* each of exactly mixinCount outputs, the groups in ascending order of
\* amount and the outputs of every group, the last one included, in
\* ascending order of index.
C28_Groups ==
    (Sampled /\ dal.kind = "resolved") =>
       LET groups == dal.value.v
       IN  /\ \A amount \in 1 .. MaxAmount :
                 Cardinality({ g \in 1 .. Len(groups) :
                                 groups[g].amount = amount }) = Asked(amount)
           /\ \A g \in 1 .. Len(groups) :
                 /\ Len(groups[g].outs) = dal.args[2]
                 /\ Ascending(groups[g].outs)
           /\ \A g, h \in 1 .. Len(groups) :
                 g < h => groups[g].amount <= groups[h].amount

\* Both reads have run their chains to the end.
ReadsDone ==
    /\ dal.op = "reads"
    /\ \A i \in 1 .. 2 : dal.reads[i].pc = "done" /\ dal.reads[i].lpc = "done"

\* C29: two equal reads started side by side on a cold cache both succeed
\* and return the same data, the header computed from the store, whatever
\* the order of their lookups, statements and cache writes.  A read that
\* has run to its end is settled, and the two settle alike.
C29_ConcurrentReads ==
    dal.op = "reads" =>
       /\ \A i \in 1 .. 2 :
             /\ dal.reads[i].pc = "done" => dal.reads[i].p.kind # "pending"
             /\ (dal.reads[i].p.kind # "pending"
                   /\ Len(BlockAtHeight(dal.height)) = 1) =>
                   dal.reads[i].p =
                      Resolved(Header(BlockAtHeight(dal.height)[1],
                                      TopBlock[1].height - dal.height))
       /\ (dal.reads[1].p.kind # "pending" /\ dal.reads[2].p.kind # "pending")
             => dal.reads[1].p = dal.reads[2].p

\* Both reads are over, one was answered from the entry the other wrote,
\* and the block is not the top one.
C29_Witness ==
    /\ ReadsDone
    /\ dal.reads[1].hit # dal.reads[2].hit
    /\ dal.reads[1].p.kind = "resolved"
    /\ dal.reads[1].p.value.v.depth > 0

\* C30: a failure of the cache backend on a lookup or on a write is treated
\* as a miss.  A read made while lookups fail finds nothing and settles as
\* the same read settles without a cache, with the result computed from the
\* store; a read made while writes fail leaves the cache as it was and, when
\* its lookups work, settles as the same read does with working writes; no
\* such read is left pending.
C30_FailureIsMiss ==
    [][(dal' # dal /\ dal'.op # "none" /\ dal'.fails # {}) =>
          LET call == [op |-> dal'.op, height |-> dal'.height,
                       args |-> dal'.args]
              Same(p) == /\ dal'.kind = p.kind
                         /\ dal'.error = p.error
                         /\ dal'.value = p.value
          IN  /\ dal'.kind # "pending"
              /\ "get" \in dal'.fails =>
                    ~dal'.hit /\ Same(Read(NoCache, call).p)
              /\ "set" \in dal'.fails => dal'.w = 0 /\ cache' = cache
              /\ dal'.fails = {"set"} => Same(Read(Ctx(cache), call).p)]_vars

\* A header is read while lookups and writes fail, with an entry for it in
\* the cache that a lookup would have found.
C30_Witness ==
    /\ dal.op = "getBlockHeaderByHeight"
    /\ dal.fails = {"get", "set"}
    /\ dal.kind = "resolved"
    /\ sha256(HeaderKey(dal.height)) \in DOMAIN cache

\* C31: a block returned by buildLegacyWalletDataBlock called with
\* skipCoinbaseTransactions = true has no coinbaseTX field, whether it was
\* rebuilt from the store or served from the cache.
C31_SkipCoinbase ==
    (dal.op = "buildLegacyWalletDataBlock" /\ dal.skip
        /\ dal.kind = "resolved") =>
       "coinbaseTX" \notin DOMAIN dal.value.v

\* The heights of the blocks a wallet scan returned, and the heights the
\* store holds from the height from on, fewer than `count`, in ascending order.
ReturnedHeights == [i \in 1 .. Len(dal.value.v) |-> dal.value.v[i].v.height]

StoredHeights(from, count) ==
    LET rows == SelectSeq(store.blocks,
                          LAMBDA b : b.height >= from /\ b.height < from + count)
    IN  [i \in 1 .. Len(rows) |-> rows[i].height]

\* C32: getWalletSyncDataByHeight(scanHeight, blockCount) returns the
\* assembled blocks of the heights in [scanHeight, scanHeight + n), n being
\* the smaller of |blockCount| and 100, and 100 without a blockCount, in
\* ascending order of height.
C32_ScanRange ==
    (dal.op = "getWalletSyncDataByHeight" /\ dal.kind = "resolved") =>
       LET given == IF dal.args[2] < 0 THEN 0 - dal.args[2] ELSE dal.args[2]
           n == IF given = 0 \/ given > 100 THEN 100 ELSE given
       IN  ReturnedHeights = StoredHeights(dal.args[1], n)

\* C33: the sampler always ends, with a result or with an error, for every
\* list of amounts and every stored maximum; when the availability test
\* passes for an amount, the loop that draws until it has enough different
\* indices needs no more of them than 0 .. maximum holds.
C33_SamplerEnds ==
    Sampled =>
       /\ dal.kind # "pending"
       /\ \A amount \in 1 .. MaxAmount :
             (Asked(amount) > 0 /\ MaximumOf(amount) >= dal.args[2] + 1) =>
                Asked(amount) * (dal.args[2] + 1) <= MaximumOf(amount) + 1

\* The block of an entry of the cache carries no meta totals.
NoMeta(keyName) ==
    LET transactions == RedisGet(cache, keyName).v.transactions
    IN  \A i \in 1 .. Len(transactions) : "meta" \notin DOMAIN transactions[i]

\* C34: the cache holds no assembled block, under its hash or under
\* 'legacy' + its hash, whose rows do not pass every consistency check of
\* its shape, and no cached block carries the meta totals of a transaction.
C34_OnlyCheckedBlocks ==
    \A height \in 1 .. MaxBlocks :
       /\ sha256(BlockHash(height)) \in DOMAIN cache =>
             WalletRowsPass(height) /\ NoMeta(BlockHash(height))
       /\ sha256("legacy" \o BlockHash(height)) \in DOMAIN cache =>
             LET txns == SelectSeq(TransactionsOf(BlockHash(height)),
                                   LAMBDA t : t.totalInputsAmount # 0)
             IN  /\ JoinedTxnCount(BlockHash(height)) = Len(txns) + 1
                 /\ \A i \in 1 .. Len(txns) : ~TxnRowsViolate(txns[i], FALSE)
                 /\ NoMeta("legacy" \o BlockHash(height))

\* C35: a requestReply call settles at most once.  Once it is rejected by
\* its timer or resolved by a reply, no step changes its outcome: a late
\* reply does not resolve it and a timer does not reject it; and a reply
\* resolves no call but the one whose correlationId it carries.
C35_SettlesOnce ==
    [][\A c \in Calls :
          /\ calls[c].state \in {"resolved", "rejected"} =>
                /\ calls'[c].state = calls[c].state
                /\ calls'[c].result = calls[c].result
                /\ calls'[c].error = calls[c].error
                /\ calls'[c].by = calls[c].by
          /\ (calls[c].state = "pending" /\ calls'[c].state = "resolved") =>
                msgs[calls'[c].by].corr = c]_vars

\* A call was rejected by its timer and the reply that carries its
\* correlationId came afterwards: its callback acknowledged the message and
\* the call is still rejected.
C35_Witness ==
    \E c \in Calls, m \in 1 .. Len(msgs) :
       /\ calls[c].state = "rejected"
       /\ calls[c].error = "Timeout"
       /\ msgs[m].corr = c
       /\ msgs[m].acks = 1

\* C36: a call issued before a disconnect can still be resolved by its
\* reply when the reply arrives after the bridge has reconnected and before
\* the timer of the call fires: with the call pending, its timer armed, the
\* reply queue declared again and the reply ready in it, the bridge can take
\* a step that resolves the call.
C36_ReplyAfterReconnect ==
    \A c \in Calls :
       (/\ calls[c].state = "pending"
        /\ calls[c].timer = "armed"
        /\ calls[c].chan # 0
        /\ calls[c].chan # liveConn
        /\ liveConn # 0
        /\ rq.owner = liveConn
        /\ \E m \in rq.ready : msgs[m].corr = c)
          => ENABLED (BridgeNext /\ calls'[c].state = "resolved")

\* What a lookup of the stored value has to return for the round trip.
SameValue(got, v) == got.t = v.t /\ got = v

\* A non-empty value: an object with a field, an array with an item, a
\* string, a number other than zero.
NonEmpty(v) ==
    /\ ~Falsy(v)
    /\ v.t \in {"arr", "obj"} => KeyCount(v) > 0

\* C37: cache round trip: when a reader has handed a non-empty value v to
\* setCache under a key and the entry has not expired, checkCache of that key
\* completes and returns a value equal to v, be v an object, an array, a
\* string or a number.
C37_RoundTrip ==
    (/\ dal.op \in { c.op : c \in CachingCalls }
     /\ NonEmpty(dal.stored)
     /\ sha256(dal.key) \in DOMAIN cache)
       => SameValue(checkCache(Ctx(cache), dal.key), dal.stored)

\* The last call was a reader of input or output rows that has resolved.
RowsRead ==
    /\ dal.op \in {"getTransactionInputs", "getTransactionOutputs"}
    /\ dal.kind = "resolved"

\* C38: getTransactionInputs and getTransactionOutputs return rows without
\* a txnHash field when trim is left at its default (true) and rows with it
\* when trim is false, on a cache miss as on a cache hit, whatever trim the
\* earlier calls for the hash used.
C38_Trim ==
    RowsRead =>
       \A i \in 1 .. Len(dal.value.v) :
          ("txnHash" \in DOMAIN dal.value.v[i]) <=> ~dal.trim

\* The last call was a preflight for which getLastBlockHeader() found a top
\* block.
PreflightRun ==
    /\ dal.op = "legacyGetWalletSyncDataPreflight"
    /\ dal.error # "No blocks found in backend storage"

\* The heights of the blocks of the store with one of the given hashes.
HeightsOf(hashes) ==
    { store.blocks[i].height :
        i \in { j \in 1 .. Len(store.blocks) :
                  \E k \in 1 .. Len(hashes) : hashes[k] = store.blocks[j].hash } }

\* C39: legacyGetWalletSyncDataPreflight always returns a blockCount in
\* 0 .. 100 and at most blockCount block hashes, all of blocks with a height
\* in [height, topBlock.height], for every combination of startHeight,
\* startTimestamp and checkpoints, also when the resolved sync height is
\* above the top height.
C39_Preflight ==
    PreflightRun =>
       /\ dal.kind = "resolved"
       /\ dal.value.v.blockCount \in 0 .. 100
       /\ Len(dal.value.v.blockHashes) <= dal.value.v.blockCount
       /\ HeightsOf(dal.value.v.blockHashes)
             \subseteq dal.value.v.height .. dal.value.v.topBlock.height
=============================================================================
